---- MODULE Spec2Model ----
(***************************************************************************)
(* Orchestration loop of the agent (src/src/core/agent.py), with the tool  *)
(* registry (src/src/tools/base.py), the provider manager                  *)
(* (src/src/core/llm.py) and the conversation memory                       *)
(* (src/src/core/memory.py) it drives.                                     *)
(*                                                                         *)
(* Conventions.  A text (Python str) is a sequence of string pieces, so    *)
(* that concatenation is \o and the empty string is <<>>.  An optional     *)
(* value is a sequence of length at most one: <<>> is None, <<v>> is v.    *)
(* A keyword-argument mapping is a set of <<key, value>> pairs.            *)
(***************************************************************************)
EXTENDS Naturals, Sequences, FiniteSets

VARIABLES
    tools,                \* ToolRegistry.tools: registered names, insertion order
    tool_objects,         \* ToolRegistry.tools: the tool held under each name
    categories,           \* ToolRegistry.categories: names listed per category
    last_call,            \* the last call made from outside a pass, with its result
    passes,               \* the passes of the concurrent view, each at an await
    conversations,        \* rows of the conversations table, in insertion order
    active_sessions,      \* ConversationManager.active_sessions: session ids
    settings,             \* the API keys of the settings
    providers,            \* LLMManager.providers: registered names, insertion order
    default_provider,     \* LLMManager.default_provider
    now,                  \* the wall clock read by datetime.now()
    pc,                   \* where the pass is
    mode,                 \* "sync" (process_message_sync) or "stream"
    session_id,           \* session the pass runs under
    original_message,     \* the user message of the pass
    current_messages,     \* working history
    function_schemas,     \* schemas advertised to the provider
    iteration,            \* loop counter
    tools_used,           \* names of the tools requested so far
    response,             \* last value returned by chat_completion
    validated_params,     \* parameters handed to the tool body
    tool_result,          \* last ToolResult
    final_response_parts, \* fragments collected by _stream_response
    final_response,       \* final answer, <<text>> once the loop has ended
    outcome,              \* how the loop ended
    yielded,              \* chunks the streaming caller has received
    returned,             \* value returned by process_message_sync
    raised,               \* exception raised inside the pass, if any
    completion_requests,  \* calls of llm.chat_completion made by the pass
    stream_requests,      \* calls of llm.stream_completion made by the pass
    execute_tool_calls,   \* calls of ToolRegistry.execute_tool that were entered
    execute_body_calls,   \* invocations of a tool's execute body
    provider_fragments,   \* fragments the provider stream has produced
    provider_log,         \* what each chat_completion call has returned
    tool_exception        \* what the tool body raised in the last execute_tool

registry_vars == <<tools, tool_objects, categories>>
memory_vars == <<conversations, now>>
session_vars == <<active_sessions>>
manager_vars == <<settings, providers, default_provider>>
pass_vars == <<mode, session_id, original_message, function_schemas>>
loop_vars == <<current_messages, iteration, tools_used, response,
               validated_params, tool_result, final_response_parts,
               final_response>>
caller_vars == <<yielded, returned, raised>>
count_vars == <<completion_requests, stream_requests, execute_tool_calls,
                execute_body_calls, provider_fragments>>
log_vars == <<provider_log, tool_exception>>
vars == <<registry_vars, last_call, memory_vars, session_vars, manager_vars, passes, pc, pass_vars,
          loop_vars, outcome, caller_vars, count_vars, log_vars>>

(***************************************************************************)
(* Bounds of the model.                                                    *)
(***************************************************************************)
MaxFragments == 2

(***************************************************************************)
(* Values.                                                                 *)
(***************************************************************************)
None == <<>>
Some(v) == <<v>>

RECURSIVE Join(_)
\* "".join(parts)
Join(parts) ==
    IF parts = <<>> THEN <<>> ELSE Head(parts) \o Join(Tail(parts))

Keys(kwargs) == {kv[1] : kv \in kwargs}

\* json.dumps: the serialised form is a value of its own kind
JsonDumps(v) == <<"json", v>>

Message(role, content, name, function_call) ==
    [role |-> role, content |-> content, name |-> name,
     function_call |-> function_call]

FunctionCall(name, arguments) ==
    [kind |-> "FunctionCall", text |-> <<>>, name |-> name,
     arguments |-> arguments]

TextResponse(text) ==
    [kind |-> "text", text |-> text, name |-> "", arguments |-> {}]

RaisedResponse(e) ==
    [kind |-> "raise", text |-> e, name |-> "", arguments |-> {}]

NoResponse == [kind |-> "none", text |-> <<>>, name |-> "", arguments |-> {}]

ToolResult(success, data, error) ==
    [success |-> success, data |-> data, error |-> error, metadata |-> {}]

NoToolResult == [success |-> FALSE, data |-> None, error |-> None,
                 metadata |-> {"unset"}]

to_dict(result) ==
    [success |-> result.success, data |-> result.data,
     error |-> result.error, metadata |-> result.metadata]

max_iterations == 5

ApologyMessage ==
    <<"I apologize, but I reached the maximum number of tool calls. Please try rephrasing your request.">>

SystemPrompt == <<"You are the agent, an advanced AI assistant with access to various tools.">>

HistoryLimit == 10

(***************************************************************************)
(* Tool registry.                                                          *)
(***************************************************************************)
ToolParameter(name, type, required, default) ==
    [name |-> name, type |-> type, description |-> <<"Parameter ", name>>,
     required |-> required, default |-> default, enum_values |-> None]

\* BaseTool.parameters of the tools of the model, as _extract_parameters
\* derives them from the signatures of execute
Parameters(tool) ==
    CASE tool = "websearch" ->
           <<ToolParameter("query", "string", TRUE, None),
             ToolParameter("max_results", "integer", FALSE, Some("5"))>>
      [] tool = "calculator" ->
           <<ToolParameter("expression", "string", TRUE, None)>>
      [] OTHER -> <<>>

\* the members of the enumeration ToolCategory
ToolCategory ==
    {"search", "computation", "file_operations", "data_analysis",
     "web_scraping", "communication", "system", "custom"}

\* a tool instance: its name and category attributes, and which object it is
Tool(name, category, object) ==
    [name |-> name, category |-> category, object |-> object]

WebSearchTool == Tool("websearch", "search", "WebSearchTool")

CalculatorTool == Tool("calculator", "computation", "CalculatorTool")

RegisteredNames == {tools[i] : i \in DOMAIN tools}

\* ToolRegistry.get_tool
get_tool(name) == IF name \in RegisteredNames THEN Some(name) ELSE None

\* ToolRegistry.to_function_schemas
to_function_schemas == [i \in DOMAIN tools |-> [name |-> tools[i]]]

MissingParameter(name) ==
    <<"Required parameter '", name, "' is missing">>

RECURSIVE ValidateFrom(_, _, _)
ValidateFrom(params, kwargs, validated) ==
    IF params = <<>> THEN [ok |-> TRUE, validated |-> validated, error |-> <<>>]
    ELSE LET param == Head(params) IN
         IF param.name \in Keys(kwargs)
         THEN ValidateFrom(Tail(params), kwargs,
                  validated \cup {kv \in kwargs : kv[1] = param.name})
         ELSE IF param.required
         THEN [ok |-> FALSE, validated |-> {},
               error |-> MissingParameter(param.name)]
         ELSE IF param.default # None
         THEN ValidateFrom(Tail(params), kwargs,
                  validated \cup {<<param.name, param.default[1]>>})
         ELSE ValidateFrom(Tail(params), kwargs, validated)

\* validate_parameters whose missing-parameter check is lost
validate_parameters_unchecked(tool, kwargs) ==
    [ok |-> TRUE,
     validated |-> {kv \in kwargs :
                      \E i \in DOMAIN Parameters(tool) :
                          Parameters(tool)[i].name = kv[1]},
     error |-> <<>>]

\* BaseTool.validate_parameters: ok with the validated mapping, or the
\* message of the ValueError it raises
validate_parameters(tool, kwargs) == ValidateFrom(Parameters(tool), kwargs, {})

NotFoundResult(name) ==
    ToolResult(FALSE, None, Some(<<"Tool '", name, "' not found">>))

\* the except branch keeping only str(e)
ExecutionFailedBare(message) == ToolResult(FALSE, None, Some(message))

\* the except branch of execute_tool
ExecutionFailed(message) ==
    ToolResult(FALSE, None, Some(<<"Tool execution failed: ">> \o message))

\* execute_tool's own parameter: a request whose arguments carry this key
\* cannot be bound to execute_tool(name, **kwargs)
RegistryOwnParameter == "name"

MultipleValuesError ==
    <<"execute_tool() got multiple values for argument 'name'">>

(***************************************************************************)
(* Conversation memory.                                                    *)
(***************************************************************************)
ConversationTurn(session, message, answer, used, metadata) ==
    [session_id |-> session, timestamp |-> now, user_message |-> message,
     assistant_message |-> answer, tools_used |-> used, metadata |-> metadata]

\* the row INSERT writes for a turn; AUTOINCREMENT numbers it
Row(turn) ==
    [id |-> Len(conversations) + 1, session_id |-> turn.session_id,
     timestamp |-> turn.timestamp, user_message |-> turn.user_message,
     assistant_message |-> turn.assistant_message,
     tools_used |-> JsonDumps(turn.tools_used),
     metadata |-> JsonDumps(turn.metadata)]

\* a save that writes over the newest row instead of adding one
save_turn_overwriting(turn) ==
    IF conversations = <<>> THEN Append(conversations, Row(turn))
    ELSE [conversations EXCEPT ![Len(conversations)] = Row(turn)]

\* MemoryManager.save_turn
save_turn(turn) == Append(conversations, Row(turn))

\* ORDER BY timestamp DESC: the orders the query may list the rows in; the
\* order among rows of equal timestamp is the engine's choice
OrderByTimestampDesc(rows) ==
    {order \in [1..Cardinality(rows) -> rows] :
        /\ \A i, j \in DOMAIN order : i # j => order[i] # order[j]
        /\ \A i, j \in DOMAIN order :
               i < j => order[i].timestamp >= order[j].timestamp}

\* LIMIT n
Limit(ordered, n) ==
    SubSeq(ordered, 1, IF Len(ordered) < n THEN Len(ordered) ELSE n)

\* the rows left in the order the query listed them
Unreversed(seq) == seq

\* reversed(rows)
Reversed(seq) == [i \in 1..Len(seq) |-> seq[Len(seq) + 1 - i]]

RECURSIVE TurnMessages(_)
TurnMessages(rows) ==
    IF rows = <<>> THEN <<>>
    ELSE <<Message("user", Head(rows).user_message, None, None),
           Message("assistant", Head(rows).assistant_message, None, None)>>
         \o TurnMessages(Tail(rows))

\* the rows of the store, whatever their session
RowsOfAnySession(session) ==
    {conversations[i] : i \in DOMAIN conversations}

\* the rows of a session
RowsOf(session) ==
    {conversations[i] : i \in
        {j \in DOMAIN conversations : conversations[j].session_id = session}}

\* get_conversation_history with include_system = False
get_conversation_history_without_system(session, limit) ==
    {TurnMessages(Reversed(Limit(ordered, limit))) :
          ordered \in OrderByTimestampDesc(RowsOf(session))}

\* MemoryManager.get_conversation_history with include_system: the message
\* lists the call may return
get_conversation_history(session, limit) ==
    {<<Message("system", SystemPrompt, None, None)>>
       \o TurnMessages(Reversed(Limit(ordered, limit))) :
          ordered \in OrderByTimestampDesc(RowsOf(session))}

\* json.loads of a text json.dumps wrote
JsonLoads(text) == text[2]

\* the turn read back from a row, with the tool list lost
ToTurnToolsDropped(row) ==
    [id |-> row.id, session_id |-> row.session_id,
     timestamp |-> row.timestamp, user_message |-> row.user_message,
     assistant_message |-> row.assistant_message,
     tools_used |-> <<>>, metadata |-> JsonLoads(row.metadata)]

\* the ConversationTurn search_conversations builds from a row
ToTurn(row) ==
    [id |-> row.id, session_id |-> row.session_id,
     timestamp |-> row.timestamp, user_message |-> row.user_message,
     assistant_message |-> row.assistant_message,
     tools_used |-> JsonLoads(row.tools_used),
     metadata |-> JsonLoads(row.metadata)]

\* ASCII case folding, on the letters of the model
Fold(c) ==
    CASE c = "A" -> "a"
      [] c = "B" -> "b"
      [] c = "C" -> "c"
      [] OTHER -> c

\* text LIKE '%query%' for a query without '%': some window of the text
\* matches the query character by character, letters without regard to
\* case and '_' in the query matching any character
Like(text, query) ==
    \E start \in 1..(Len(text) + 1) :
        /\ start + Len(query) <= Len(text) + 1
        /\ \A k \in 1..Len(query) :
               \/ query[k] = "_"
               \/ Fold(text[start + k - 1]) = Fold(query[k])

\* MemoryManager.search_conversations: the lists of turns the call may
\* return; session is None or the session to search in
search_conversations(query, session, limit) ==
    LET matching ==
            {conversations[i] : i \in
                {j \in DOMAIN conversations :
                    /\ \/ Like(conversations[j].user_message, query)
                       \/ Like(conversations[j].assistant_message, query)
                    /\ session # None =>
                          conversations[j].session_id = session[1]}}
    IN {[i \in DOMAIN Limit(ordered, limit) |->
            ToTurn(Limit(ordered, limit)[i])] :
          ordered \in OrderByTimestampDesc(matching)}

RECURSIVE Extend(_)
\* all_tools.extend(tools) over the rows of the second query
Extend(rows) ==
    IF rows = <<>> THEN <<>>
    ELSE JsonLoads(Head(rows).tools_used) \o Extend(Tail(rows))

RECURSIVE SumLengths(_)
\* SUM(LENGTH(user_message) + LENGTH(assistant_message)); NULL for no row
SumLengths(rows) ==
    IF rows = <<>> THEN 0
    ELSE Len(Head(rows).user_message) + Len(Head(rows).assistant_message)
         + SumLengths(Tail(rows))

\* get_session_stats counting a tool once for each turn that used it
get_session_stats_once_per_turn(session) ==
    LET rows == SelectSeq(conversations, LAMBDA r : r.session_id = session)
        stamps == {rows[i].timestamp : i \in DOMAIN rows}
        used == UNION {{JsonLoads(rows[i].tools_used)[k] :
                           k \in DOMAIN JsonLoads(rows[i].tools_used)} :
                       i \in DOMAIN rows}
    IN [total_turns |-> Len(rows),
        first_message |->
            IF rows = <<>> THEN None
            ELSE Some(CHOOSE t \in stamps : \A u \in stamps : t <= u),
        last_message |->
            IF rows = <<>> THEN None
            ELSE Some(CHOOSE t \in stamps : \A u \in stamps : t >= u),
        total_characters |->
            IF rows = <<>> THEN None ELSE Some(SumLengths(rows)),
        tools_used |->
            [tool \in used |->
                Cardinality({i \in DOMAIN rows :
                    \E k \in DOMAIN JsonLoads(rows[i].tools_used) :
                        JsonLoads(rows[i].tools_used)[k] = tool})]]

\* MemoryManager.get_session_stats
get_session_stats(session) ==
    LET rows == SelectSeq(conversations, LAMBDA r : r.session_id = session)
        with_tools == SelectSeq(rows,
                          LAMBDA r : r.tools_used # JsonDumps(<<>>))
        all_tools == Extend(with_tools)
        stamps == {rows[i].timestamp : i \in DOMAIN rows}
    IN [total_turns |-> Len(rows),
        first_message |->
            IF rows = <<>> THEN None
            ELSE Some(CHOOSE t \in stamps : \A u \in stamps : t <= u),
        last_message |->
            IF rows = <<>> THEN None
            ELSE Some(CHOOSE t \in stamps : \A u \in stamps : t >= u),
        total_characters |->
            IF rows = <<>> THEN None ELSE Some(SumLengths(rows)),
        tools_used |->
            [tool \in {all_tools[i] : i \in DOMAIN all_tools} |->
                Cardinality({i \in DOMAIN all_tools : all_tools[i] = tool})]]

(***************************************************************************)
(* Behaviours of the environment: what the provider, the tools and the     *)
(* storage layer may do.                                                   *)
(***************************************************************************)
UserMessages == {<<"What is 2+2?">>}

AnswerTexts == {<<"The answer is 4.">>, <<"Hello">>}

Fragments == {<<"Hel">>, <<"lo">>}

FunctionCalls ==
    {FunctionCall("websearch", {<<"query", "2+2">>}),
     FunctionCall("websearch", {}),
     FunctionCall("ghost", {}),
     FunctionCall("websearch", {<<"name", "x">>, <<"query", "2+2">>})}

ProviderErrors == {<<"provider unavailable">>}

StorageErrors == {<<"database is locked">>}

\* a tool body returns a result or raises an Exception with this str()
ToolOutcomes ==
    {[kind |-> "result", result |-> ToolResult(TRUE, Some("4"), None),
      message |-> <<>>]}
    \cup {[kind |-> "raise", result |-> NoToolResult, message |-> m] :
            m \in {<<>>, <<"boom">>}}

SessionChoices == {"", "s1"}

NewSessionId == "uuid-1"

PriorTurn ==
    [id |-> 1, session_id |-> "s1", timestamp |-> 1,
     user_message |-> <<"Hi">>, assistant_message |-> <<"Hello">>,
     tools_used |-> JsonDumps(<<>>),
     metadata |-> JsonDumps({<<"iterations", 1>>})]

(***************************************************************************)
(* Sessions.                                                               *)
(***************************************************************************)
\* create_session that starts the dict anew with the one session
create_session_replacing(sessions, id) ==
    [s \in {id} |-> [created_at |-> now, last_activity |-> now]]

\* ConversationManager.create_session
create_session(sessions, id) ==
    [s \in DOMAIN sessions \cup {id} |->
        IF s = id THEN [created_at |-> now, last_activity |-> now]
        ELSE sessions[s]]

\* ConversationManager.update_session_activity
update_session_activity(sessions, id) ==
    [s \in DOMAIN sessions |->
        IF s = id THEN [sessions[s] EXCEPT !.last_activity = now]
        ELSE sessions[s]]

\* ConversationManager.get_session
get_session(id) ==
    IF id \in DOMAIN active_sessions THEN Some(active_sessions[id]) ELSE None

(***************************************************************************)
(* The provider manager.                                                   *)
(***************************************************************************)
\* settings.openai_api_key and settings.anthropic_api_key: None, or a string
Settings(openai_api_key, anthropic_api_key) ==
    [openai_api_key |-> openai_api_key,
     anthropic_api_key |-> anthropic_api_key]

\* the truth value of an Optional[str]: None and "" are false
Truthy(text) == text # None /\ text # Some("")

\* _initialize_providers with the two key tests in the other order
initialize_providers_anthropic_first(keys) ==
    LET anthropic == IF Truthy(keys.anthropic_api_key)
                     THEN <<"anthropic">> ELSE <<>>
        openai == IF Truthy(keys.openai_api_key)
                  THEN <<"openai">> ELSE <<>>
        registered == anthropic \o openai
    IN IF registered = <<>>
       THEN [providers |-> <<"mock">>, default_provider |-> Some("mock")]
       ELSE [providers |-> registered,
             default_provider |-> Some(Head(registered))]

\* LLMManager.__init__ with _initialize_providers: the providers dict in
\* insertion order and default_provider, which starts as None
initialize_providers(keys) ==
    LET first == IF Truthy(keys.openai_api_key)
                 THEN [providers |-> <<"openai">>,
                       default_provider |-> Some("openai")]
                 ELSE [providers |-> <<>>, default_provider |-> None]
        second == IF Truthy(keys.anthropic_api_key)
                  THEN [providers |-> Append(first.providers, "anthropic"),
                        default_provider |->
                            IF first.default_provider = None
                            THEN Some("anthropic")
                            ELSE first.default_provider]
                  ELSE first
    IN IF second.default_provider = None
       THEN [providers |-> Append(second.providers, "mock"),
             default_provider |-> Some("mock")]
       ELSE second

\* the manager as constructed under the given settings
LLMManager(keys) ==
    /\ settings = keys
    /\ providers = initialize_providers(keys).providers
    /\ default_provider = initialize_providers(keys).default_provider

(***************************************************************************)
(* The state after construction: the registry holds its tools, the store   *)
(* holds one earlier turn of session s1, no pass is running.               *)
(***************************************************************************)
NoCall == [op |-> "none"]

Init ==
    /\ tools = <<"websearch", "calculator">>
    /\ tool_objects = [n \in {"websearch", "calculator"} |->
                          IF n = "websearch" THEN WebSearchTool
                          ELSE CalculatorTool]
    /\ categories = [c \in ToolCategory |->
                        CASE c = "search" -> <<"websearch">>
                          [] c = "computation" -> <<"calculator">>
                          [] OTHER -> <<>>]
    /\ last_call = NoCall
    /\ passes = <<>>
    /\ LLMManager(Settings(Some("sk-1"), None))
    /\ conversations = <<PriorTurn>>
    /\ active_sessions = [s \in {"s1"} |-> [created_at |-> 1, last_activity |-> 1]]
    /\ now = 2
    /\ pc = "idle"
    /\ mode = "sync"
    /\ session_id = ""
    /\ original_message = <<>>
    /\ current_messages = <<>>
    /\ function_schemas = <<>>
    /\ iteration = 0
    /\ tools_used = <<>>
    /\ response = NoResponse
    /\ validated_params = {}
    /\ tool_result = NoToolResult
    /\ final_response_parts = <<>>
    /\ final_response = None
    /\ outcome = "none"
    /\ yielded = <<>>
    /\ returned = None
    /\ raised = None
    /\ completion_requests = 0
    /\ stream_requests = 0
    /\ execute_tool_calls = 0
    /\ execute_body_calls = 0
    /\ provider_fragments = <<>>
    /\ provider_log = <<>>
    /\ tool_exception = None

(***************************************************************************)
(* The orchestration pass.                                                 *)
(***************************************************************************)
\* the answer of the except branch with the prefix lost
ErrorAnswerBare(message) == message

\* f"I encountered an error: {str(e)}"
ErrorAnswer(message) == <<"I encountered an error: ">> \o message

\* the except branch persisting a turn for the failed pass as well
HandleExceptionSaving(m, message) ==
    /\ raised' = Some(message)
    /\ outcome' = "ERROR"
    /\ pc' = "done"
    /\ conversations' = save_turn(ConversationTurn(session_id,
           original_message, ErrorAnswer(message), tools_used, {}))
    /\ IF m = "stream"
       THEN /\ yielded' = Append(yielded, ErrorAnswer(message))
            /\ returned' = returned
       ELSE /\ returned' = Some(ErrorAnswer(message))
            /\ yielded' = yielded

\* except Exception of process_message_sync and process_message_stream:
\* the error text is returned, or yielded as one more fragment
HandleException(m, message) ==
    /\ raised' = Some(message)
    /\ outcome' = "ERROR"
    /\ pc' = "done"
    /\ conversations' = conversations
    /\ IF m = "stream"
       THEN /\ yielded' = Append(yielded, ErrorAnswer(message))
            /\ returned' = returned
       ELSE /\ returned' = Some(ErrorAnswer(message))
            /\ yielded' = yielded

\* process_message_sync / process_message_stream up to the loop: session,
\* history, schemas, and the locals of _generate_response / _stream_response
StartPass(message, sid, m) ==
    /\ pc = "idle"
    /\ LET id == IF sid = "" THEN NewSessionId ELSE sid
           created == IF sid = "" THEN create_session(active_sessions, id)
                      ELSE active_sessions
       IN /\ active_sessions' = update_session_activity(created, id)
          /\ session_id' = id
          /\ mode' = m
          /\ original_message' = message
          /\ \/ /\ \E history \in get_conversation_history(id, HistoryLimit) :
                      current_messages' =
                          Append(history, Message("user", message, None, None))
                /\ function_schemas' = to_function_schemas
                /\ pc' = "loop"
                /\ UNCHANGED <<conversations, outcome, caller_vars>>
             \/ /\ \E e \in StorageErrors : HandleException(m, e)
                /\ UNCHANGED <<current_messages, function_schemas>>
    /\ UNCHANGED <<registry_vars, last_call, manager_vars, passes, now, iteration,
                   tools_used, response,
                   validated_params, tool_result, final_response_parts,
                   final_response, count_vars, log_vars>>

\* a loop test that lets one more iteration through
LoopConditionOffByOne(i) == i <= max_iterations

\* while iteration < max_iterations
LoopCondition(i) == i < max_iterations

\* top of the loop body: iteration += 1 and the completion request is issued
LoopHead ==
    /\ pc = "loop"
    /\ LoopCondition(iteration)
    /\ iteration' = iteration + 1
    /\ completion_requests' = completion_requests + 1
    /\ pc' = "AWAITING_MODEL"
    /\ UNCHANGED <<registry_vars, last_call, memory_vars, session_vars, manager_vars, passes, pass_vars,
                   current_messages, tools_used, response, validated_params,
                   tool_result, final_response_parts, final_response,
                   outcome, caller_vars, stream_requests, execute_tool_calls,
                   execute_body_calls, provider_fragments, log_vars>>

\* a loop exit that gives the streaming answer in both modes
LoopElseJoined(m) == Join(final_response_parts)

\* the answer when the loop ends without a break: the else clause of the
\* while of _generate_response; _stream_response has none and joins the
\* fragments it collected
LoopElse(m) ==
    IF m = "sync" THEN ApologyMessage ELSE Join(final_response_parts)

\* the loop condition fails: the cap is exhausted
LoopExhausted ==
    /\ pc = "loop"
    /\ ~LoopCondition(iteration)
    /\ final_response' = Some(LoopElse(mode))
    /\ outcome' = "EXHAUSTED"
    /\ pc' = "save_turn"
    /\ UNCHANGED <<registry_vars, last_call, memory_vars, session_vars, manager_vars, passes, pass_vars,
                   current_messages, iteration, tools_used, response,
                   validated_params, tool_result, final_response_parts,
                   caller_vars, count_vars, log_vars>>

UsingToolNotice(name) == <<"Using tool: ", name>>

\* chat_completion returns a FunctionCall; the streaming pass tells the
\* caller before it dispatches
CompletionReturnsCall(call) ==
    /\ pc = "AWAITING_MODEL"
    /\ response' = call
    /\ provider_log' = Append(provider_log, call)
    /\ pc' = "TOOL_REQUESTED"
    /\ yielded' = IF mode = "stream"
                  THEN Append(yielded, UsingToolNotice(call.name))
                  ELSE yielded
    /\ UNCHANGED <<registry_vars, last_call, memory_vars, session_vars, manager_vars, passes, pass_vars,
                   current_messages, iteration, tools_used, validated_params,
                   tool_result, final_response_parts, final_response,
                   outcome, returned, raised, count_vars,
                   tool_exception>>

\* a stream request that passes the schemas of the pass on
StreamRequestWithSchemas(messages) ==
    [op |-> "stream_completion", messages |-> messages,
     functions |-> Some(function_schemas)]

\* self.llm.stream_completion(messages=current_messages): functions is
\* left at its default, None
StreamRequest(messages) ==
    [op |-> "stream_completion", messages |-> messages, functions |-> None]

\* chat_completion returns text: the buffered pass takes it as the final
\* answer and breaks; the streaming pass asks the provider for a stream of
\* the working history
CompletionReturnsText(text) ==
    /\ pc = "AWAITING_MODEL"
    /\ response' = TextResponse(text)
    /\ provider_log' = Append(provider_log, TextResponse(text))
    /\ IF mode = "sync"
       THEN /\ final_response' = Some(text)
            /\ outcome' = "ANSWERED"
            /\ pc' = "save_turn"
            /\ UNCHANGED <<stream_requests, last_call>>
       ELSE /\ stream_requests' = stream_requests + 1
            /\ last_call' = StreamRequest(current_messages)
            /\ pc' = "streaming"
            /\ UNCHANGED <<final_response, outcome>>
    /\ UNCHANGED <<registry_vars, memory_vars, session_vars, manager_vars, passes, pass_vars,
                   current_messages, iteration, tools_used, validated_params,
                   tool_result, final_response_parts, caller_vars,
                   completion_requests, execute_tool_calls,
                   execute_body_calls, provider_fragments, tool_exception>>

\* chat_completion raises
CompletionRaises(e) ==
    /\ pc = "AWAITING_MODEL"
    /\ HandleException(mode, e)
    /\ provider_log' = Append(provider_log, RaisedResponse(e))
    /\ UNCHANGED <<registry_vars, last_call, now, session_vars, manager_vars, passes, pass_vars, loop_vars, count_vars,
                   tool_exception>>

\* execute_tool without the lookup test: the missing tool fails inside try
execute_tool_unguarded(name, kwargs) ==
    IF get_tool(name) = None
    THEN [awaiting_body |-> FALSE, validated |-> {},
          result |-> ExecutionFailed(
              <<"'NoneType' object has no attribute 'validate_parameters'">>)]
    ELSE LET v == validate_parameters(name, kwargs) IN
         IF v.ok
         THEN [awaiting_body |-> TRUE, validated |-> v.validated,
               result |-> NoToolResult]
         ELSE [awaiting_body |-> FALSE, validated |-> {},
               result |-> ExecutionFailed(v.error)]

\* ToolRegistry.execute_tool up to the await of the tool body: the result it
\* returns at once, or the validated parameters it calls the body with
execute_tool(name, kwargs) ==
    IF get_tool(name) = None
    THEN [awaiting_body |-> FALSE, validated |-> {},
          result |-> NotFoundResult(name)]
    ELSE LET v == validate_parameters(name, kwargs) IN
         IF v.ok
         THEN [awaiting_body |-> TRUE, validated |-> v.validated,
               result |-> NoToolResult]
         ELSE [awaiting_body |-> FALSE, validated |-> {},
               result |-> ExecutionFailed(v.error)]

\* the call execute_tool(response.name, **response.arguments) binds unless
\* the arguments carry execute_tool's own parameter name
CallBinds(kwargs) == RegistryOwnParameter \notin Keys(kwargs)

\* the loop dispatches the requested tool
DispatchTool ==
    /\ pc = "TOOL_REQUESTED"
    /\ IF ~CallBinds(response.arguments)
       THEN /\ HandleException(mode, MultipleValuesError)
            /\ UNCHANGED <<validated_params, tool_result, count_vars,
                           tool_exception>>
       ELSE LET call == execute_tool(response.name, response.arguments) IN
            /\ execute_tool_calls' = execute_tool_calls + 1
            /\ validated_params' = call.validated
            /\ tool_exception' = None
            /\ IF call.awaiting_body
               THEN /\ execute_body_calls' = execute_body_calls + 1
                    /\ pc' = "executing"
                    /\ UNCHANGED tool_result
               ELSE /\ tool_result' = call.result
                    /\ pc' = "TOOL_EXECUTED"
                    /\ UNCHANGED execute_body_calls
            /\ UNCHANGED <<conversations, outcome, caller_vars,
                           completion_requests, stream_requests,
                           provider_fragments>>
    /\ UNCHANGED <<registry_vars, last_call, now, session_vars, manager_vars, passes, pass_vars, current_messages,
                   iteration, tools_used, response, final_response_parts,
                   final_response, provider_log>>

\* what execute_tool returns once the tool body has returned or raised
BodyResult(o) ==
    IF o.kind = "raise" THEN ExecutionFailed(o.message) ELSE o.result

\* the tool body returns or raises; execute_tool returns
ToolBodyReturns(o) ==
    /\ pc = "executing"
    /\ tool_result' = BodyResult(o)
    /\ tool_exception' = IF o.kind = "raise" THEN Some(o.message) ELSE None
    /\ pc' = "TOOL_EXECUTED"
    /\ UNCHANGED <<registry_vars, last_call, memory_vars, session_vars, manager_vars, passes, pass_vars,
                   current_messages, iteration, tools_used, response,
                   validated_params, final_response_parts, final_response,
                   outcome, caller_vars, count_vars, provider_log>>

ToolSummary(result) ==
    IF result.success THEN <<"Tool completed successfully">>
    ELSE <<"Tool failed: ">> \o result.error[1]

\* the iteration going on to the next request without its messages
ToolMessagesDropped(call, result) == <<>>

\* the two messages in the other order
ToolMessagesResultFirst(call, result) ==
    <<Message("function", JsonDumps(to_dict(result)), Some(call.name), None),
      Message("assistant", <<>>, None,
              Some([name |-> call.name,
                    arguments |-> JsonDumps(call.arguments)]))>>

\* the messages a tool-request iteration appends to the working history
ToolMessages(call, result) ==
    <<Message("assistant", <<>>, None,
              Some([name |-> call.name,
                    arguments |-> JsonDumps(call.arguments)])),
      Message("function", JsonDumps(to_dict(result)), Some(call.name), None)>>

\* the rest of a tool-request iteration, after execute_tool has returned
RecordToolResult ==
    /\ pc = "TOOL_EXECUTED"
    /\ tools_used' = Append(tools_used, response.name)
    /\ current_messages' = current_messages \o ToolMessages(response, tool_result)
    /\ yielded' = IF mode = "stream"
                  THEN Append(yielded, ToolSummary(tool_result))
                  ELSE yielded
    /\ pc' = "loop"
    /\ UNCHANGED <<registry_vars, last_call, memory_vars, session_vars, manager_vars, passes, pass_vars,
                   iteration, response, validated_params, tool_result,
                   final_response_parts, final_response, outcome, returned,
                   raised, count_vars, log_vars>>

\* a chunk that reaches the caller but not the collected parts
StreamChunkUncollected(f) ==
    /\ pc = "streaming"
    /\ Len(provider_fragments) < MaxFragments
    /\ provider_fragments' = Append(provider_fragments, f)
    /\ final_response_parts' = final_response_parts
    /\ yielded' = Append(yielded, f)
    /\ UNCHANGED <<registry_vars, last_call, memory_vars, session_vars, manager_vars, passes, pc, pass_vars,
                   current_messages, iteration, tools_used, response,
                   validated_params, tool_result, final_response, outcome,
                   returned, raised, completion_requests, stream_requests,
                   execute_tool_calls, execute_body_calls, log_vars>>

\* the provider stream produces a fragment: it is appended to the parts and
\* yielded to the caller
StreamChunk(f) ==
    /\ pc = "streaming"
    /\ Len(provider_fragments) < MaxFragments
    /\ provider_fragments' = Append(provider_fragments, f)
    /\ final_response_parts' = Append(final_response_parts, f)
    /\ yielded' = Append(yielded, f)
    /\ UNCHANGED <<registry_vars, last_call, memory_vars, session_vars, manager_vars, passes, pc, pass_vars,
                   current_messages, iteration, tools_used, response,
                   validated_params, tool_result, final_response, outcome,
                   returned, raised, completion_requests, stream_requests,
                   execute_tool_calls, execute_body_calls, log_vars>>

\* the end of the stream without the break: the loop goes on
StreamEndsWithoutBreak ==
    /\ pc = "streaming"
    /\ pc' = "loop"
    /\ UNCHANGED <<registry_vars, last_call, memory_vars, session_vars, manager_vars, passes, pass_vars,
                   loop_vars, outcome, caller_vars, count_vars, log_vars>>

\* the provider stream ends: break, and the parts are joined
StreamEnds ==
    /\ pc = "streaming"
    /\ final_response' = Some(Join(final_response_parts))
    /\ outcome' = "ANSWERED"
    /\ pc' = "save_turn"
    /\ UNCHANGED <<registry_vars, last_call, memory_vars, session_vars, manager_vars, passes, pass_vars,
                   current_messages, iteration, tools_used, response,
                   validated_params, tool_result, final_response_parts,
                   caller_vars, count_vars, log_vars>>

\* the provider stream raises
StreamRaises(e) ==
    /\ pc = "streaming"
    /\ HandleException(mode, e)
    /\ UNCHANGED <<registry_vars, last_call, now, session_vars, manager_vars, passes, pass_vars, loop_vars, count_vars,
                   log_vars>>

\* metadata that counts the tool iterations only
TurnMetadataOfTools(m, i) ==
    IF m = "stream" THEN {<<"iterations", i - 1>>, <<"streamed", 1>>}
    ELSE {<<"iterations", i - 1>>}

\* metadata={"iterations": iteration}, with "streamed": True when streaming
TurnMetadata(m, i) ==
    IF m = "stream" THEN {<<"iterations", i>>, <<"streamed", 1>>}
    ELSE {<<"iterations", i>>}

\* after the loop: the turn is built and saved, and the buffered pass
\* returns the final answer
SaveTurn ==
    /\ pc = "save_turn"
    /\ conversations' = save_turn(ConversationTurn(session_id,
           original_message, final_response[1], tools_used,
           TurnMetadata(mode, iteration)))
    /\ returned' = IF mode = "sync" THEN final_response ELSE returned
    /\ pc' = "done"
    /\ UNCHANGED <<registry_vars, last_call, now, session_vars, manager_vars, passes, pass_vars, loop_vars, outcome,
                   yielded, raised, count_vars, log_vars>>

\* save_turn raises
SaveTurnRaises(e) ==
    /\ pc = "save_turn"
    /\ HandleException(mode, e)
    /\ UNCHANGED <<registry_vars, last_call, now, session_vars, manager_vars, passes, pass_vars, loop_vars, count_vars,
                   log_vars>>

\* the pass is suspended: it awaits the provider or a tool body, or the
\* streaming generator stands at a yield
Suspended ==
    \/ pc \in {"AWAITING_MODEL", "executing", "streaming"}
    \/ mode = "stream" /\ pc = "TOOL_REQUESTED"
    \/ mode = "stream" /\ pc = "loop" /\ iteration > 0

\* a cancellation that still writes the turn of the unfinished pass
CancelSaving ==
    /\ Suspended
    /\ pc' = "cancelled"
    /\ outcome' = "CANCELLED"
    /\ conversations' = save_turn(ConversationTurn(session_id,
           original_message, Join(final_response_parts), tools_used,
           TurnMetadata(mode, iteration)))
    /\ UNCHANGED <<registry_vars, last_call, now, session_vars, manager_vars, passes, pass_vars, loop_vars,
                   caller_vars, count_vars, log_vars>>

\* the task is cancelled at an await, or the consumer abandons the
\* generator at a yield: CancelledError / GeneratorExit pass except Exception
\* and nothing after the loop runs
Cancel ==
    /\ Suspended
    /\ pc' = "cancelled"
    /\ outcome' = "CANCELLED"
    /\ UNCHANGED <<registry_vars, last_call, memory_vars, session_vars, manager_vars, passes, pass_vars,
                   loop_vars, caller_vars, count_vars, log_vars>>

Next ==
    \/ \E message \in UserMessages, sid \in SessionChoices,
          m \in {"sync", "stream"} : StartPass(message, sid, m)
    \/ LoopHead
    \/ LoopExhausted
    \/ \E call \in FunctionCalls : CompletionReturnsCall(call)
    \/ \E text \in AnswerTexts : CompletionReturnsText(text)
    \/ \E e \in ProviderErrors : CompletionRaises(e)
    \/ DispatchTool
    \/ \E o \in ToolOutcomes : ToolBodyReturns(o)
    \/ RecordToolResult
    \/ \E f \in Fragments : StreamChunk(f)
    \/ StreamEnds
    \/ \E e \in ProviderErrors : StreamRaises(e)
    \/ SaveTurn
    \/ \E e \in StorageErrors : SaveTurnRaises(e)
    \/ Cancel

Spec == Init /\ [][Next]_vars

\* a step of the pass itself, of the provider or of a tool: every step
\* but the start of a pass and its cancellation
PassStep ==
    \/ LoopHead
    \/ LoopExhausted
    \/ \E call \in FunctionCalls : CompletionReturnsCall(call)
    \/ \E text \in AnswerTexts : CompletionReturnsText(text)
    \/ \E e \in ProviderErrors : CompletionRaises(e)
    \/ DispatchTool
    \/ \E o \in ToolOutcomes : ToolBodyReturns(o)
    \/ RecordToolResult
    \/ \E f \in Fragments : StreamChunk(f)
    \/ StreamEnds
    \/ \E e \in ProviderErrors : StreamRaises(e)
    \/ SaveTurn
    \/ \E e \in StorageErrors : SaveTurnRaises(e)

\* the pass under an event loop that resumes every coroutine that can run,
\* with a provider and tools that return or raise: a step that stays
\* possible is taken
LiveSpec == Init /\ [][Next]_vars /\ WF_vars(PassStep)

(***************************************************************************)
(* The registry on its own: tools are registered and unregistered while no *)
(* pass is running.                                                        *)
(***************************************************************************)
MaxCategoryEntries == 3

\* the variables of a pass while none is running
NoPass ==
    /\ pc = "idle"
    /\ mode = "sync"
    /\ session_id = ""
    /\ original_message = <<>>
    /\ current_messages = <<>>
    /\ function_schemas = <<>>
    /\ iteration = 0
    /\ tools_used = <<>>
    /\ response = NoResponse
    /\ validated_params = {}
    /\ tool_result = NoToolResult
    /\ final_response_parts = <<>>
    /\ final_response = None
    /\ outcome = "none"
    /\ yielded = <<>>
    /\ returned = None
    /\ raised = None
    /\ completion_requests = 0
    /\ stream_requests = 0
    /\ execute_tool_calls = 0
    /\ execute_body_calls = 0
    /\ provider_fragments = <<>>
    /\ provider_log = <<>>
    /\ tool_exception = None

\* the tools a caller may hand to register: the two tools of the model and
\* another tool whose class name gives it the name "calculator" as well
ToolObjects ==
    {WebSearchTool, CalculatorTool,
     Tool("calculator", "custom", "other.CalculatorTool")}

ToolNames == {"websearch", "calculator", "ghost"}

\* ToolRegistry.__init__
RegistryInit ==
    /\ tools = <<>>
    /\ tool_objects = <<>>
    /\ categories = [c \in ToolCategory |-> <<>>]
    /\ last_call = NoCall
    /\ conversations = <<>>
    /\ active_sessions = <<>>
    /\ now = 1
    /\ passes = <<>>
    /\ LLMManager(Settings(None, None))
    /\ NoPass

RECURSIVE CategoryEntries(_, _)
CategoryEntries(index, cs) ==
    IF cs = {} THEN 0
    ELSE LET c == CHOOSE x \in cs : TRUE
         IN Len(index[c]) + CategoryEntries(index, cs \ {c})

\* self.tools[tool.name] = tool: a new key goes last, a key already present
\* keeps its place and gets the new value
SetItem(name) ==
    IF name \in RegisteredNames THEN tools ELSE Append(tools, name)

\* ToolRegistry.register
register(tool) ==
    /\ CategoryEntries(categories, ToolCategory) < MaxCategoryEntries
    /\ tools' = SetItem(tool.name)
    /\ tool_objects' = [n \in RegisteredNames \cup {tool.name} |->
                           IF n = tool.name THEN tool ELSE tool_objects[n]]
    /\ categories' = [categories EXCEPT
                          ![tool.category] = Append(@, tool.name)]
    /\ last_call' = [op |-> "register", tool |-> tool, raised |-> None]
    /\ UNCHANGED <<memory_vars, session_vars, manager_vars, passes, pc, pass_vars, loop_vars,
                   outcome, caller_vars, count_vars, log_vars>>

\* list.remove(x): the first occurrence is removed
RemoveFirst(seq, x) ==
    LET first == CHOOSE i \in DOMAIN seq :
                     seq[i] = x /\ \A j \in 1..(i - 1) : seq[j] # x
    IN [i \in 1..(Len(seq) - 1) |-> IF i < first THEN seq[i] ELSE seq[i + 1]]

Contains(seq, x) == \E i \in DOMAIN seq : seq[i] = x

\* ToolRegistry.unregister
unregister(tool_name) ==
    /\ IF tool_name \notin RegisteredNames
       THEN /\ last_call' = [op |-> "unregister", tool_name |-> tool_name,
                             raised |-> None]
            /\ UNCHANGED registry_vars
       ELSE LET tool == tool_objects[tool_name] IN
            IF ~Contains(categories[tool.category], tool_name)
            THEN /\ last_call' = [op |-> "unregister",
                                  tool_name |-> tool_name,
                                  raised |-> Some(<<"list.remove(x): x not in list">>)]
                 /\ UNCHANGED registry_vars
            ELSE /\ categories' = [categories EXCEPT ![tool.category] =
                                       RemoveFirst(@, tool_name)]
                 /\ tools' = SelectSeq(tools, LAMBDA n : n # tool_name)
                 /\ tool_objects' = [n \in RegisteredNames \ {tool_name} |->
                                        tool_objects[n]]
                 /\ last_call' = [op |-> "unregister",
                                  tool_name |-> tool_name, raised |-> None]
    /\ UNCHANGED <<memory_vars, session_vars, manager_vars, passes, pc, pass_vars, loop_vars,
                   outcome, caller_vars, count_vars, log_vars>>

RegistryNext ==
    \/ \E tool \in ToolObjects : register(tool)
    \/ \E tool_name \in ToolNames : unregister(tool_name)

RegistrySpec == RegistryInit /\ [][RegistryNext]_vars

(***************************************************************************)
(* The pass driven by the deterministic mock provider                      *)
(* (MockLLMProvider), over the registries a deployment may hold.           *)
(***************************************************************************)
MockText ==
    <<"I'm a mock AI assistant. Please configure your API keys to use real LLM providers.">>

\* response.split(), each word followed by a blank
MockWords ==
    <<<<"I'm ">>, <<"a ">>, <<"mock ">>, <<"AI ">>, <<"assistant. ">>,
      <<"Please ">>, <<"configure ">>, <<"your ">>, <<"API ">>, <<"keys ">>,
      <<"to ">>, <<"use ">>, <<"real ">>, <<"LLM ">>, <<"providers. ">>>>

\* a mock that asks for the function listed last
MockCompletionOfLast(functions) ==
    IF functions # <<>>
    THEN FunctionCall(functions[Len(functions)].name,
                      IF functions[Len(functions)].name = "calculator"
                      THEN {<<"expression", "2+2">>} ELSE {})
    ELSE TextResponse(MockText)

\* MockLLMProvider.chat_completion without stream: a request for the first
\* function whenever functions are supplied, whatever the messages are
MockCompletion(functions) ==
    IF functions # <<>>
    THEN FunctionCall(functions[1].name,
                      IF functions[1].name = "calculator"
                      THEN {<<"expression", "2+2">>} ELSE {})
    ELSE TextResponse(MockText)

\* the registry after register has been called with these tools in turn
\* (tools of different names)
RegistryOf(registered) ==
    /\ tools = [i \in DOMAIN registered |-> registered[i].name]
    /\ tool_objects =
          [n \in {registered[i].name : i \in DOMAIN registered} |->
              registered[CHOOSE i \in DOMAIN registered :
                             registered[i].name = n]]
    /\ categories =
          [c \in ToolCategory |->
              LET listed == SelectSeq(registered, LAMBDA t : t.category = c)
              IN [i \in DOMAIN listed |-> listed[i].name]]

MockRegistries ==
    {<<>>, <<CalculatorTool>>, <<CalculatorTool, WebSearchTool>>,
     <<WebSearchTool, CalculatorTool>>}

MockInit ==
    /\ \E registered \in MockRegistries : RegistryOf(registered)
    /\ last_call = NoCall
    /\ conversations = <<PriorTurn>>
    /\ active_sessions =
          [s \in {"s1"} |-> [created_at |-> 1, last_activity |-> 1]]
    /\ now = 2
    /\ passes = <<>>
    /\ LLMManager(Settings(None, None))
    /\ NoPass

\* the mock answers the completion request
MockChatCompletion ==
    /\ pc = "AWAITING_MODEL"
    /\ LET completion == MockCompletion(function_schemas) IN
       IF completion.kind = "FunctionCall"
       THEN CompletionReturnsCall(completion)
       ELSE CompletionReturnsText(completion.text)

\* CalculatorTool.execute for the expression 2+2
CalculatorOutcome ==
    [kind |-> "result", result |-> ToolResult(TRUE, Some("4"), None),
     message |-> <<>>]

\* the body of the requested tool runs
MockToolBody ==
    /\ response.name = "calculator"
    /\ <<"expression", "2+2">> \in validated_params
    /\ ToolBodyReturns(CalculatorOutcome)

\* MockLLMProvider.stream_completion yields the next word
MockStreamChunk ==
    /\ pc = "streaming"
    /\ Len(provider_fragments) < Len(MockWords)
    /\ LET word == MockWords[Len(provider_fragments) + 1] IN
          /\ provider_fragments' = Append(provider_fragments, word)
          /\ final_response_parts' = Append(final_response_parts, word)
          /\ yielded' = Append(yielded, word)
    /\ UNCHANGED <<registry_vars, last_call, memory_vars, session_vars, manager_vars, passes, pc,
                   pass_vars, current_messages, iteration, tools_used,
                   response, validated_params, tool_result, final_response,
                   outcome, returned, raised, completion_requests,
                   stream_requests, execute_tool_calls, execute_body_calls,
                   log_vars>>

\* the mock stream is exhausted
MockStreamEnds ==
    /\ Len(provider_fragments) = Len(MockWords)
    /\ StreamEnds

MockNext ==
    \/ \E message \in UserMessages, sid \in SessionChoices,
          m \in {"sync", "stream"} : StartPass(message, sid, m)
    \/ LoopHead
    \/ LoopExhausted
    \/ MockChatCompletion
    \/ DispatchTool
    \/ MockToolBody
    \/ RecordToolResult
    \/ MockStreamChunk
    \/ MockStreamEnds
    \/ SaveTurn

MockSpec == MockInit /\ [][MockNext]_vars

(***************************************************************************)
(* The conversation memory on its own: turns are saved and read back       *)
(* through the MemoryManager while the wall clock moves.                   *)
(***************************************************************************)
MaxTurns == 2

\* what datetime.now() may read: the local wall clock, which may stand
\* still between two readings and may be set back
ClockReadings == {1, 2}

MemorySessions == {"s1", "s2"}

\* the texts and tool lists of the turns that are saved
TurnInputs ==
    {[user_message |-> <<"a", "b">>, assistant_message |-> <<"o", "k">>,
      tools_used |-> <<>>],
     [user_message |-> <<"A", "c">>, assistant_message |-> <<"4">>,
      tools_used |-> <<"calculator", "websearch", "calculator">>]}

Limits == {0, 1, HistoryLimit}

\* MemoryManager.__init__ on a new database
MemoryInit ==
    /\ RegistryOf(<<WebSearchTool, CalculatorTool>>)
    /\ last_call = NoCall
    /\ conversations = <<>>
    /\ active_sessions = <<>>
    /\ now = 1
    /\ passes = <<>>
    /\ LLMManager(Settings(None, None))
    /\ NoPass

\* the wall clock shows another reading
ClockStep(reading) ==
    /\ now # reading
    /\ now' = reading
    /\ UNCHANGED <<registry_vars, last_call, conversations, session_vars, manager_vars, passes, pc,
                   pass_vars, loop_vars, outcome, caller_vars, count_vars,
                   log_vars>>

\* a turn is built and MemoryManager.save_turn is called with it
SaveTurnCall(session, input) ==
    /\ Len(conversations) < MaxTurns
    /\ LET turn == ConversationTurn(session, input.user_message,
                       input.assistant_message, input.tools_used, {})
       IN /\ conversations' = save_turn(turn)
          /\ last_call' = [op |-> "save_turn", turn |-> turn,
                           result |-> Row(turn).id]
    /\ UNCHANGED <<registry_vars, now, session_vars, manager_vars, passes, pc, pass_vars,
                   loop_vars, outcome, caller_vars, count_vars, log_vars>>

\* MemoryManager.get_conversation_history is called
GetHistoryCall(session, limit) ==
    /\ \E result \in get_conversation_history(session, limit) :
          last_call' = [op |-> "get_conversation_history",
                        session_id |-> session, limit |-> limit,
                        result |-> result]
    /\ UNCHANGED <<registry_vars, memory_vars, session_vars, manager_vars, passes, pc, pass_vars,
                   loop_vars, outcome, caller_vars, count_vars, log_vars>>

\* the queries searched for; none carries a '%'
Queries == {<<>>, <<"a">>, <<"_">>, <<"4">>}

SearchSessions == {None, Some("s1")}

SearchLimits == {1, 10}

\* MemoryManager.search_conversations is called
SearchCall(query, session, limit) ==
    /\ \E result \in search_conversations(query, session, limit) :
          last_call' = [op |-> "search_conversations", query |-> query,
                        session_id |-> session, limit |-> limit,
                        result |-> result]
    /\ UNCHANGED <<registry_vars, memory_vars, session_vars, manager_vars, passes, pc, pass_vars,
                   loop_vars, outcome, caller_vars, count_vars, log_vars>>

\* MemoryManager.get_session_stats is called
StatsCall(session) ==
    /\ last_call' = [op |-> "get_session_stats", session_id |-> session,
                     result |-> get_session_stats(session)]
    /\ UNCHANGED <<registry_vars, memory_vars, session_vars, manager_vars, passes, pc, pass_vars,
                   loop_vars, outcome, caller_vars, count_vars, log_vars>>

MemoryNext ==
    \/ \E reading \in ClockReadings : ClockStep(reading)
    \/ \E session \in MemorySessions, input \in TurnInputs :
          SaveTurnCall(session, input)
    \/ \E session \in MemorySessions, limit \in Limits :
          GetHistoryCall(session, limit)
    \/ \E query \in Queries, session \in SearchSessions,
          limit \in SearchLimits : SearchCall(query, session, limit)
    \/ \E session \in MemorySessions : StatsCall(session)

MemorySpec == MemoryInit /\ [][MemoryNext]_vars

(***************************************************************************)
(* Buffered passes running concurrently on one event loop.  The code of a  *)
(* pass between two awaits runs without interruption, so a pass is seen at *)
(* its awaits only: of the provider and of the tool body.                  *)
(***************************************************************************)
Passes == {"p1", "p2"}

\* the session_id a pass is called with: none, a session of the
\* ConversationManager, or an id the caller made up itself
ConcurrentSessions == {"", "s1", "s2", "ext"}

PriorTurnOfS2 ==
    [id |-> 2, session_id |-> "s2", timestamp |-> 1,
     user_message |-> <<"Hey">>, assistant_message |-> <<"Hi there">>,
     tools_used |-> JsonDumps(<<>>),
     metadata |-> JsonDumps({<<"iterations", 1>>})]

InitialTurns == <<PriorTurn, PriorTurnOfS2>>

\* the message a pass is called with, and what the provider answers it
MessageOf(p) == <<"message of ", p>>

AnswerTo(p) == <<"answer to ", p>>

\* str(uuid.uuid4()): a new id at every call
NewSessionIdOf(p) == IF p = "p1" THEN "uuid-1" ELSE "uuid-2"

IdlePass ==
    [pc |-> "idle", session_id |-> "", started_at |-> 0,
     history |-> <<>>, rows_seen |-> 0,
     iteration |-> 0, tools_used |-> <<>>, outcome |-> "none",
     returned |-> None]

ConcurrentInit ==
    /\ RegistryOf(<<WebSearchTool, CalculatorTool>>)
    /\ last_call = NoCall
    /\ conversations = InitialTurns
    /\ active_sessions =
          [s \in {"s1", "s2"} |-> [created_at |-> 1, last_activity |-> 1]]
    /\ now = 2
    /\ NoPass
    /\ passes = [p \in Passes |-> IdlePass]
    /\ LLMManager(Settings(Some("sk-1"), None))

\* the variables of the single pass stay as they are
SinglePassIdle ==
    UNCHANGED <<pc, pass_vars, loop_vars, outcome, caller_vars, count_vars,
                log_vars>>

\* process_message_sync is called and runs to its first await: the session
\* is created or touched, the history is read, the first completion
\* request is issued
PassStarts(p, sid) ==
    /\ passes[p].pc = "idle"
    /\ LET id == IF sid = "" THEN NewSessionIdOf(p) ELSE sid
           created == IF sid = "" THEN create_session(active_sessions, id)
                      ELSE active_sessions
       IN /\ active_sessions' = update_session_activity(created, id)
          /\ \/ \E history \in get_conversation_history(id, HistoryLimit) :
                   passes' = [passes EXCEPT ![p] =
                       [IdlePass EXCEPT
                           !.pc = "AWAITING_MODEL",
                           !.session_id = id,
                           !.started_at = now,
                           !.history = Append(history,
                               Message("user", MessageOf(p), None, None)),
                           !.rows_seen = Len(conversations),
                           !.iteration = 1]]
             \/ \E e \in StorageErrors :
                   passes' = [passes EXCEPT ![p] =
                       [IdlePass EXCEPT
                           !.pc = "done",
                           !.session_id = id,
                           !.started_at = now,
                           !.outcome = "ERROR",
                           !.returned = Some(ErrorAnswer(e))]]
    /\ UNCHANGED <<registry_vars, last_call, memory_vars, manager_vars>>
    /\ SinglePassIdle

\* the provider answers with a tool request: the pass awaits the tool
PassRequestsTool(p) ==
    /\ passes[p].pc = "AWAITING_MODEL"
    /\ passes' = [passes EXCEPT ![p].pc = "AWAITING_TOOL"]
    /\ UNCHANGED <<registry_vars, last_call, memory_vars, session_vars, manager_vars>>
    /\ SinglePassIdle

\* the turn a pass saves
TurnOfPass(p, answer, used, i) ==
    ConversationTurn(passes[p].session_id, MessageOf(p), answer, used,
                     TurnMetadata("sync", i))

\* execute_tool returns: the tool is recorded and the loop goes on with
\* the next completion request or, at the cap, ends with the apology, which
\* is saved and returned
PassToolReturns(p) ==
    /\ passes[p].pc = "AWAITING_TOOL"
    /\ LET used == Append(passes[p].tools_used, "calculator") IN
       IF LoopCondition(passes[p].iteration)
       THEN /\ passes' = [passes EXCEPT
                             ![p].pc = "AWAITING_MODEL",
                             ![p].tools_used = used,
                             ![p].iteration = @ + 1]
            /\ UNCHANGED conversations
       ELSE /\ conversations' = save_turn(TurnOfPass(p, ApologyMessage, used,
                                              passes[p].iteration))
            /\ passes' = [passes EXCEPT
                             ![p].pc = "done",
                             ![p].tools_used = used,
                             ![p].outcome = "EXHAUSTED",
                             ![p].returned = Some(ApologyMessage)]
    /\ UNCHANGED <<registry_vars, last_call, now, session_vars, manager_vars>>
    /\ SinglePassIdle

\* the provider answers with text: the turn is saved and the text returned
PassAnswers(p) ==
    /\ passes[p].pc = "AWAITING_MODEL"
    /\ conversations' = save_turn(TurnOfPass(p, AnswerTo(p),
                             passes[p].tools_used, passes[p].iteration))
    /\ passes' = [passes EXCEPT ![p].pc = "done",
                                ![p].outcome = "ANSWERED",
                                ![p].returned = Some(AnswerTo(p))]
    /\ UNCHANGED <<registry_vars, last_call, now, session_vars, manager_vars>>
    /\ SinglePassIdle

\* the provider raises, or save_turn does after the provider's text: the
\* error text is returned and nothing is saved
PassRaises(p, e) ==
    /\ passes[p].pc = "AWAITING_MODEL"
    /\ passes' = [passes EXCEPT ![p].pc = "done",
                                ![p].outcome = "ERROR",
                                ![p].returned = Some(ErrorAnswer(e))]
    /\ UNCHANGED <<registry_vars, last_call, memory_vars, session_vars, manager_vars>>
    /\ SinglePassIdle

\* the task of the pass is cancelled at its await
PassCancelled(p) ==
    /\ passes[p].pc \in {"AWAITING_MODEL", "AWAITING_TOOL"}
    /\ passes' = [passes EXCEPT ![p].pc = "cancelled",
                                ![p].outcome = "CANCELLED"]
    /\ UNCHANGED <<registry_vars, last_call, memory_vars, session_vars, manager_vars>>
    /\ SinglePassIdle

ConcurrentNext ==
    \/ \E p \in Passes, sid \in ConcurrentSessions : PassStarts(p, sid)
    \/ \E p \in Passes : PassRequestsTool(p)
    \/ \E p \in Passes : PassToolReturns(p)
    \/ \E p \in Passes : PassAnswers(p)
    \/ \E p \in Passes, e \in ProviderErrors \cup StorageErrors :
          PassRaises(p, e)
    \/ \E p \in Passes : PassCancelled(p)
    \/ \E reading \in ClockReadings : ClockStep(reading)

ConcurrentSpec == ConcurrentInit /\ [][ConcurrentNext]_vars

(***************************************************************************)
(* Schema derivation: a tool is constructed from the signature its class   *)
(* declares for execute, and its schema is asked for.                      *)
(***************************************************************************)
MaxParameters == 2

MaxExecutions == 1

\* an annotation, by what _extract_parameters asks of it: whether it has
\* __origin__ (form "alias"), only __name__ (form "class"), or neither;
\* __name__ of an alias is the name typing gives it (Python 3.10 and later)
Annotation(form, origin, name, args) ==
    [form |-> form, origin |-> origin, name |-> name, args |-> args]

\* inspect.Parameter.empty as an annotation
NoAnnotation == Annotation("empty", "", "", <<>>)

Class(name) == Annotation("class", "", name, <<>>)

NoneType == Class("NoneType")

\* a string annotation or a literal value: no __origin__, no __name__
Unnamed == Annotation("unnamed", "", "", <<>>)

Optional(a) == Annotation("alias", "Union", "Optional", <<a, NoneType>>)

\* the annotations of the model: none, a builtin type, a builtin type the
\* mapping does not list, a class of the repository, List and Dict generics,
\* Optional and Union, a generic without arguments, a string annotation
Annotations ==
    {NoAnnotation, Class("str"), Class("bytes"), Class("ToolCategory"),
     Annotation("alias", "list", "List", <<Class("int")>>),
     Annotation("alias", "dict", "Dict", <<Class("str"), Class("int")>>),
     Optional(Class("float")),
     Optional(Class("ToolCategory")),
     Annotation("alias", "Union", "Union", <<NoneType, Unnamed, Class("bool")>>),
     Annotation("alias", "tuple", "Tuple", <<>>),
     Unnamed}

\* type_mapping of _extract_parameters
type_mapping ==
    [int |-> "integer", float |-> "number", bool |-> "boolean",
     str |-> "string", list |-> "array", dict |-> "object"]

\* dict.get(key, default)
Get(mapping, key, default) ==
    IF key \in DOMAIN mapping THEN mapping[key] ELSE default

\* the for/else over __args__: the first argument that is not NoneType and
\* has __name__ decides, and 'string' is the result when there is none
FirstNonNone(args) ==
    LET named == {i \in DOMAIN args :
                      args[i] # NoneType /\ args[i].form \in {"class", "alias"}}
    IN IF named = {} THEN "string"
       ELSE LET first == CHOOSE i \in named : \A j \in named : i <= j
            IN Get(type_mapping, args[first].name, "string")

\* param_type as _extract_parameters derives it from param.annotation
param_type(annotation) ==
    CASE annotation.form = "empty" -> "string"
      [] annotation.form = "alias" ->
           IF annotation.origin = "list" THEN "array"
           ELSE IF annotation.origin = "dict" THEN "object"
           ELSE IF annotation.args # <<>> THEN FirstNonNone(annotation.args)
           ELSE "string"
      [] annotation.form = "class" ->
           Get(type_mapping, annotation.name, annotation.name)
      [] OTHER -> "string"

\* a parameter of a signature: default is None for inspect.Parameter.empty,
\* Some("None") for the default None, Some(v) for another default
Declared(name, annotation, default) ==
    [name |-> name, annotation |-> annotation, default |-> default]

Defaults == {None, Some("None"), Some("5")}

\* one turn of the loop of _extract_parameters
extract_parameter(param) ==
    LET required == param.default = None
    IN ToolParameter(param.name, param_type(param.annotation), required,
                     IF required \/ param.default = Some("None") THEN None
                     ELSE param.default)

\* BaseTool._extract_parameters: the parameter named kwargs is skipped
extract_parameters(sig) ==
    LET kept == SelectSeq(sig, LAMBDA param : param.name # "kwargs")
    IN [i \in DOMAIN kept |-> extract_parameter(kept[i])]

\* BaseTool.__init__ of a class named DemoTool that declares sig for execute
BaseTool(sig) ==
    [name |-> "demo", description |-> <<"No description available">>,
     category |-> "custom", object |-> "DemoTool", execute |-> sig,
     parameters |-> extract_parameters(sig)]

\* the property of one parameter in the schema
Property(param) ==
    IF param.enum_values # None
    THEN [type |-> param.type, description |-> param.description,
          enum |-> param.enum_values[1]]
    ELSE [type |-> param.type, description |-> param.description]

\* the schema with the key 'required' whatever the list holds
to_function_schema_always_required(tool) ==
    LET params == tool.parameters
        needed == SelectSeq(params, LAMBDA param : param.required)
    IN [name |-> tool.name, description |-> tool.description,
        parameters |->
            [type |-> "object",
             properties |-> [i \in DOMAIN params |->
                                <<params[i].name, Property(params[i])>>],
             required |-> [i \in DOMAIN needed |-> needed[i].name]]]

\* BaseTool.to_function_schema: properties is the dict in insertion order,
\* 'required' is a key of parameters only when the list is not empty
to_function_schema(tool) ==
    LET params == tool.parameters
        needed == SelectSeq(params, LAMBDA param : param.required)
        properties == [i \in DOMAIN params |->
                          <<params[i].name, Property(params[i])>>]
        required == [i \in DOMAIN needed |-> needed[i].name]
    IN [name |-> tool.name, description |-> tool.description,
        parameters |->
            IF required # <<>>
            THEN [type |-> "object", properties |-> properties,
                  required |-> required]
            ELSE [type |-> "object", properties |-> properties]]

\* the signatures a tool class may declare have up to MaxParameters
\* parameters x1, x2, ..., with or without **kwargs after them
ParameterName(i) ==
    CASE i = 1 -> "x1" [] i = 2 -> "x2" [] i = 3 -> "x3" [] OTHER -> "x4"

\* a signature of n parameters, followed by **kwargs when k = 1
Signature(n, k, anns, ds) ==
    [i \in 1..(n + k) |->
        IF i <= n THEN Declared(ParameterName(i), anns[i], ds[i])
        ELSE Declared("kwargs", NoAnnotation, None)]

\* a registry that holds one tool, constructed from one of the signatures
SchemaInit ==
    /\ tools = <<"demo">>
    /\ \E n \in 0..MaxParameters, k \in {0, 1} :
           \E anns \in [1..n -> Annotations], ds \in [1..n -> Defaults] :
               tool_objects =
                   [name \in {"demo"} |-> BaseTool(Signature(n, k, anns, ds))]
    /\ categories = [c \in ToolCategory |->
                        IF c = "custom" THEN <<"demo">> ELSE <<>>]
    /\ last_call = NoCall
    /\ conversations = <<>>
    /\ active_sessions = <<>>
    /\ now = 1
    /\ passes = <<>>
    /\ LLMManager(Settings(None, None))
    /\ NoPass

\* tool.to_function_schema() called on a tool of the registry
ToFunctionSchemaCall(name) ==
    /\ name \in RegisteredNames
    /\ last_call' = [op |-> "to_function_schema", tool_name |-> name,
                     result |-> to_function_schema(tool_objects[name])]
    /\ UNCHANGED <<registry_vars, memory_vars, session_vars, manager_vars, passes, pc,
                   pass_vars, loop_vars, outcome, caller_vars, count_vars,
                   log_vars>>

\* the arguments of a call: none, or a value for every parameter
ArgumentsFor(tool) ==
    {{}, {<<tool.parameters[i].name, "1">> : i \in DOMAIN tool.parameters}}

\* ToolRegistry.execute_tool on a tool of the registry whose body returns a
\* result: the body runs once the parameters are validated
ExecuteToolCall(name, kwargs) ==
    /\ name \in RegisteredNames
    /\ execute_tool_calls < MaxExecutions
    /\ LET validated == ValidateFrom(tool_objects[name].parameters, kwargs, {})
       IN IF validated.ok
          THEN /\ execute_body_calls' = execute_body_calls + 1
               /\ last_call' = [op |-> "execute_tool", tool_name |-> name,
                                result |-> ToolResult(TRUE, Some("done"), None)]
          ELSE /\ execute_body_calls' = execute_body_calls
               /\ last_call' = [op |-> "execute_tool", tool_name |-> name,
                                result |-> ExecutionFailed(validated.error)]
    /\ execute_tool_calls' = execute_tool_calls + 1
    /\ UNCHANGED <<registry_vars, memory_vars, session_vars, manager_vars, passes, pc,
                   pass_vars, loop_vars, outcome, caller_vars,
                   completion_requests, stream_requests, provider_fragments,
                   log_vars>>

SchemaNext ==
    \/ \E name \in RegisteredNames : ToFunctionSchemaCall(name)
    \/ \E name \in RegisteredNames :
          \E kwargs \in ArgumentsFor(tool_objects[name]) :
              ExecuteToolCall(name, kwargs)

SchemaSpec == SchemaInit /\ [][SchemaNext]_vars

(***************************************************************************)
(* The provider manager on its own: it is constructed under every          *)
(* combination of keys and asked for providers by name.                    *)
(***************************************************************************)
ApiKeys == {None, Some(""), Some("sk-1")}

ProviderNames ==
    {None, Some(""), Some("openai"), Some("anthropic"), Some("mock"),
     Some("ghost")}

ManagerInit ==
    /\ \E openai_api_key \in ApiKeys, anthropic_api_key \in ApiKeys :
           LLMManager(Settings(openai_api_key, anthropic_api_key))
    /\ tools = <<>>
    /\ tool_objects = <<>>
    /\ categories = [c \in ToolCategory |-> <<>>]
    /\ last_call = NoCall
    /\ conversations = <<>>
    /\ active_sessions = <<>>
    /\ now = 1
    /\ passes = <<>>
    /\ NoPass

NotAvailable(name) ==
    <<"Provider '", IF name = None THEN "None" ELSE name[1],
      "' not available">>

\* LLMManager.get_provider: the provider returned, or the ValueError raised
get_provider(provider_name) ==
    LET name == IF Truthy(provider_name) THEN provider_name
                ELSE default_provider
    IN IF ~Truthy(name) \/ ~Contains(providers, name[1])
       THEN [provider |-> None, raised |-> Some(NotAvailable(name))]
       ELSE [provider |-> name, raised |-> None]

\* a call of get_provider, or of chat_completion or stream_completion of the
\* manager, which look the provider up before they hand the request on
ManagerCall(op, provider_name) ==
    /\ last_call' = [op |-> op, provider_name |-> provider_name,
                     provider |-> get_provider(provider_name).provider,
                     raised |-> get_provider(provider_name).raised]
    /\ UNCHANGED <<registry_vars, memory_vars, session_vars, manager_vars,
                   passes, pc, pass_vars, loop_vars, outcome, caller_vars,
                   count_vars, log_vars>>

ManagerNext ==
    \/ \E name \in ProviderNames : ManagerCall("get_provider", name)
    \/ \E name \in ProviderNames : ManagerCall("chat_completion", name)
    \/ \E name \in ProviderNames : ManagerCall("stream_completion", name)

ManagerSpec == ManagerInit /\ [][ManagerNext]_vars

(***************************************************************************)
(* The session manager and the store called from outside a pass: sessions  *)
(* are created, looked up, touched and cleaned up while turns are saved    *)
(* and the clock moves. The clock counts hours here.                       *)
(***************************************************************************)
\* str(uuid.uuid4()): the ids the manager may draw
SessionIds == {"uuid-1", "uuid-2"}

\* the turn saved under a session
SessionTurn ==
    [user_message |-> <<"a", "b">>, assistant_message |-> <<"o", "k">>,
     tools_used |-> <<>>]

CleanupHours == {0, 1}

SessionInit ==
    /\ tools = <<>>
    /\ tool_objects = <<>>
    /\ categories = [c \in ToolCategory |-> <<>>]
    /\ last_call = NoCall
    /\ conversations = <<>>
    /\ active_sessions = <<>>
    /\ now = 1
    /\ passes = <<>>
    /\ LLMManager(Settings(None, None))
    /\ NoPass

\* ConversationManager.create_session is called
CreateSessionCall(id) ==
    /\ id \notin DOMAIN active_sessions
    /\ active_sessions' = create_session(active_sessions, id)
    /\ last_call' = [op |-> "create_session", result |-> id]
    /\ UNCHANGED <<registry_vars, memory_vars, manager_vars, passes, pc,
                   pass_vars, loop_vars, outcome, caller_vars, count_vars,
                   log_vars>>

\* ConversationManager.get_session is called
GetSessionCall(id) ==
    /\ last_call' = [op |-> "get_session", session_id |-> id,
                     result |-> get_session(id)]
    /\ UNCHANGED <<registry_vars, memory_vars, session_vars, manager_vars,
                   passes, pc, pass_vars, loop_vars, outcome, caller_vars,
                   count_vars, log_vars>>

\* ConversationManager.update_session_activity is called
UpdateSessionActivityCall(id) ==
    /\ active_sessions' = update_session_activity(active_sessions, id)
    /\ last_call' = [op |-> "update_session_activity", session_id |-> id]
    /\ UNCHANGED <<registry_vars, memory_vars, manager_vars, passes, pc,
                   pass_vars, loop_vars, outcome, caller_vars, count_vars,
                   log_vars>>

\* the sessions cleanup_inactive_sessions deletes: those whose last
\* activity is before the cutoff
inactive_sessions(hours) ==
    {sid \in DOMAIN active_sessions :
        active_sessions[sid].last_activity < now - hours}

\* ConversationManager.cleanup_inactive_sessions: the sessions that remain
cleanup_inactive_sessions(hours) ==
    [sid \in DOMAIN active_sessions \ inactive_sessions(hours) |->
        active_sessions[sid]]

CleanupCall(hours) ==
    /\ active_sessions' = cleanup_inactive_sessions(hours)
    /\ last_call' = [op |-> "cleanup_inactive_sessions", hours |-> hours,
                     result |-> Cardinality(inactive_sessions(hours))]
    /\ UNCHANGED <<registry_vars, memory_vars, manager_vars, passes, pc,
                   pass_vars, loop_vars, outcome, caller_vars, count_vars,
                   log_vars>>

SessionNext ==
    \/ \E id \in SessionIds : CreateSessionCall(id)
    \/ \E id \in SessionIds \cup {"ext"} : GetSessionCall(id)
    \/ \E id \in SessionIds \cup {"ext"} : UpdateSessionActivityCall(id)
    \/ \E hours \in CleanupHours : CleanupCall(hours)
    \/ \E id \in SessionIds : SaveTurnCall(id, SessionTurn)
    \/ \E id \in SessionIds : StatsCall(id)
    \/ \E reading \in ClockReadings : ClockStep(reading)

SessionSpec == SessionInit /\ [][SessionNext]_vars

(***************************************************************************)
(* The pass while the registry changes: another coroutine registers or     *)
(* unregisters a tool while the pass is suspended at an await.             *)
(***************************************************************************)
ReconfigNext ==
    \/ StartPass(<<"What is 2+2?">>, "s1", "sync")
    \/ LoopHead
    \/ LoopExhausted
    \/ CompletionReturnsCall(FunctionCall("calculator",
                                          {<<"expression", "2+2">>}))
    \/ CompletionReturnsText(<<"4">>)
    \/ DispatchTool
    \/ ToolBodyReturns([kind |-> "result",
                        result |-> ToolResult(TRUE, Some("4"), None),
                        message |-> <<>>])
    \/ RecordToolResult
    \/ SaveTurn
    \/ Suspended /\ register(CalculatorTool)
    \/ Suspended /\ unregister("calculator")

ReconfigSpec == Init /\ [][ReconfigNext]_vars

(***************************************************************************)
(* The pass driven by the Anthropic adapter (AnthropicProvider), which is  *)
(* the default provider when only the Anthropic key is configured.         *)
(***************************************************************************)
\* what client.messages.create does: it raises, or it returns a response
\* whose content is a list of text blocks
ApiReplies ==
    {[error |-> Some(e), content |-> <<>>] : e \in ProviderErrors}
    \cup {[error |-> None, content |-> <<>>]}
    \cup {[error |-> None, content |-> <<[type |-> "text", text |-> t]>>] :
            t \in AnswerTexts}

\* an adapter that passes the functions on and returns a request for the
\* first of them
AnthropicCompletionCalling(functions, reply) ==
    IF reply.error # None THEN RaisedResponse(reply.error[1])
    ELSE IF functions # <<>> THEN FunctionCall(functions[1].name, {})
    ELSE IF reply.content = <<>>
         THEN RaisedResponse(<<"list index out of range">>)
         ELSE TextResponse(reply.content[1].text)

\* AnthropicProvider.chat_completion without stream: functions is not put
\* into the request, and the result is response.content[0].text
AnthropicCompletion(functions, reply) ==
    IF reply.error # None THEN RaisedResponse(reply.error[1])
    ELSE IF reply.content = <<>>
         THEN RaisedResponse(<<"list index out of range">>)
         ELSE TextResponse(reply.content[1].text)

AnthropicInit ==
    /\ \E registered \in MockRegistries : RegistryOf(registered)
    /\ last_call = NoCall
    /\ conversations = <<PriorTurn>>
    /\ active_sessions =
          [s \in {"s1"} |-> [created_at |-> 1, last_activity |-> 1]]
    /\ now = 2
    /\ passes = <<>>
    /\ LLMManager(Settings(None, Some("sk-ant-1")))
    /\ NoPass

\* the adapter answers the completion request of the loop
AnthropicChatCompletion(reply) ==
    /\ pc = "AWAITING_MODEL"
    /\ get_provider(None).provider = Some("anthropic")
    /\ LET completion == AnthropicCompletion(function_schemas, reply) IN
       CASE completion.kind = "FunctionCall" ->
                CompletionReturnsCall(completion)
         [] completion.kind = "text" ->
                CompletionReturnsText(completion.text)
         [] OTHER -> CompletionRaises(completion.text)

\* AnthropicProvider.stream_completion: one more chat_completion, for the
\* messages alone, whose text is yielded as the only chunk
AnthropicStreamChunk(reply) ==
    /\ pc = "streaming"
    /\ provider_fragments = <<>>
    /\ get_provider(None).provider = Some("anthropic")
    /\ LET completion == AnthropicCompletion(<<>>, reply) IN
       IF completion.kind = "text"
       THEN StreamChunk(completion.text)
       ELSE StreamRaises(completion.text)

\* the generator of the adapter returns after its one chunk
AnthropicStreamEnds ==
    /\ provider_fragments # <<>>
    /\ StreamEnds

AnthropicNext ==
    \/ \E message \in UserMessages, sid \in SessionChoices,
          m \in {"sync", "stream"} : StartPass(message, sid, m)
    \/ LoopHead
    \/ \E reply \in ApiReplies : AnthropicChatCompletion(reply)
    \/ \E reply \in ApiReplies : AnthropicStreamChunk(reply)
    \/ AnthropicStreamEnds
    \/ SaveTurn
    \/ \E e \in StorageErrors : SaveTurnRaises(e)
    \/ Cancel

AnthropicSpec == AnthropicInit /\ [][AnthropicNext]_vars

(***************************************************************************)
(* CodeExecutorTool.execute on the event loop.  run_code has no await:     *)
(* exec(code) runs in one step of the inner task that wait_for creates,    *)
(* on the thread of the loop, and no other callback of the loop (a timer,  *)
(* another pass) runs until that step has returned.                        *)
(***************************************************************************)
MaxElapsed == 3

\* the code handed to the tool: how long exec runs it, whether exec ever
\* returns, and what it raises
Codes ==
    {[source |-> "x = 1", finishes |-> TRUE, duration |-> 0,
      raises |-> None],
     [source |-> "1/0", finishes |-> TRUE, duration |-> 0,
      raises |-> Some(<<"division by zero">>)],
     [source |-> "for i in range(10**9): pass", finishes |-> TRUE,
      duration |-> 2, raises |-> None],
     [source |-> "while True: pass", finishes |-> FALSE, duration |-> 0,
      raises |-> None]}

Timeouts == {0, 1}

CodeExecutionDisabled ==
    ToolResult(FALSE, None, Some(<<"Code execution is disabled">>))

\* str() of the timeouts of the model
Str(n) == CASE n = 0 -> "0" [] n = 1 -> "1" [] OTHER -> "2"

\* except asyncio.TimeoutError
TimedOut(timeout) ==
    ToolResult(FALSE, None,
               Some(<<"Code execution timed out after ", Str(timeout),
                      " seconds">>))

\* what execute returns once run_code has ended: the captured output, or
\* the failure of the outer except Exception
CodeResult(code) ==
    IF code.raises = None
    THEN ToolResult(TRUE, Some(code.source), None)
    ELSE ToolResult(FALSE, None,
                    Some(<<"Code execution failed: ">> \o code.raises[1]))

ExecuteCall(code, timeout, timer) ==
    [op |-> "execute", code |-> code, timeout |-> timeout,
     elapsed |-> 0, ran |-> 0, timer |-> timer]

\* execute(code, timeout) up to its await: the switch of the settings is
\* read; wait_for with timeout <= 0 cancels run_code before it has started
\* and raises TimeoutError; otherwise wait_for schedules run_code as a task,
\* arms the timer and suspends
CodeExecutorExecute(code, timeout, enable_code_execution) ==
    /\ pc = "idle"
    /\ IF ~enable_code_execution
       THEN /\ tool_result' = CodeExecutionDisabled
            /\ last_call' = ExecuteCall(code, timeout, "none")
            /\ pc' = "done"
       ELSE IF timeout <= 0
       THEN /\ tool_result' = TimedOut(timeout)
            /\ last_call' = ExecuteCall(code, timeout, "none")
            /\ pc' = "done"
       ELSE /\ tool_result' = tool_result
            /\ last_call' = ExecuteCall(code, timeout, "armed")
            /\ pc' = "executing"
    /\ UNCHANGED <<registry_vars, memory_vars, session_vars, manager_vars,
                   passes, pass_vars, current_messages, iteration,
                   tools_used, response, validated_params,
                   final_response_parts, final_response, outcome,
                   caller_vars, count_vars, log_vars>>

\* the loop runs the first step of the task of run_code: exec begins
RunCodeStarts ==
    /\ pc = "executing"
    /\ pc' = "exec"
    /\ UNCHANGED <<registry_vars, last_call, memory_vars, session_vars,
                   manager_vars, passes, pass_vars, loop_vars, outcome,
                   caller_vars, count_vars, log_vars>>

\* a second goes by, for the loop and for the code that exec is running;
\* code that ends does so when it has run for its duration
TimePasses ==
    /\ pc \in {"executing", "exec", "exec_returned"}
    /\ last_call.elapsed < MaxElapsed
    /\ (pc = "exec" /\ last_call.code.finishes) =>
           last_call.ran < last_call.code.duration
    /\ last_call' = [last_call EXCEPT
                        !.elapsed = @ + 1,
                        !.ran = IF pc = "exec" THEN @ + 1 ELSE @]
    /\ UNCHANGED <<registry_vars, memory_vars, session_vars, manager_vars,
                   passes, pc, pass_vars, loop_vars, outcome, caller_vars,
                   count_vars, log_vars>>

\* exec returns or raises: the task of run_code is done and its callback,
\* which wakes wait_for, is scheduled
ExecReturns ==
    /\ pc = "exec"
    /\ last_call.code.finishes
    /\ last_call.ran = last_call.code.duration
    /\ pc' = "exec_returned"
    /\ UNCHANGED <<registry_vars, last_call, memory_vars, session_vars,
                   manager_vars, passes, pass_vars, loop_vars, outcome,
                   caller_vars, count_vars, log_vars>>

\* the timer of wait_for is due and the loop runs its callback; the loop
\* gets to it only after the step of run_code, which was scheduled first
TimerFires ==
    /\ pc = "exec_returned"
    /\ last_call.timer = "armed"
    /\ last_call.elapsed >= last_call.timeout
    /\ last_call' = [last_call EXCEPT !.timer = "fired"]
    /\ UNCHANGED <<registry_vars, memory_vars, session_vars, manager_vars,
                   passes, pc, pass_vars, loop_vars, outcome, caller_vars,
                   count_vars, log_vars>>

\* wait_for is resumed: the task of run_code is done, so its result is
\* returned (or its exception raised) whether the timer has fired or not,
\* and a timer still armed is cancelled
WaitForReturns ==
    /\ pc = "exec_returned"
    /\ tool_result' = CodeResult(last_call.code)
    /\ last_call' = [last_call EXCEPT
                        !.timer = IF @ = "armed" THEN "cancelled" ELSE @]
    /\ pc' = "done"
    /\ UNCHANGED <<registry_vars, memory_vars, session_vars, manager_vars,
                   passes, pass_vars, current_messages, iteration,
                   tools_used, response, validated_params,
                   final_response_parts, final_response, outcome,
                   caller_vars, count_vars, log_vars>>

\* the thread of the loop is not inside exec: other callbacks can run
LoopFree == pc # "exec"

CodeExecutorNext ==
    \/ \E code \in Codes, timeout \in Timeouts, enabled \in BOOLEAN :
          CodeExecutorExecute(code, timeout, enabled)
    \/ RunCodeStarts
    \/ TimePasses
    \/ ExecReturns
    \/ TimerFires
    \/ WaitForReturns
    \/ LoopFree /\ PassStarts("p2", "s1")
    \/ LoopFree /\ PassAnswers("p2")

\* the loop runs every callback that is ready, and time goes on
CodeExecutorSpec ==
    ConcurrentInit /\ [][CodeExecutorNext]_vars /\ WF_vars(CodeExecutorNext)

(***************************************************************************)
(* Observations used by the properties.                                    *)
(***************************************************************************)
\* the rows the pass has written: those after the row the store held before
TurnsOfPass == SelectSeq(conversations, LAMBDA r : r.id > PriorTurn.id)

Last(seq) == seq[Len(seq)]

\* a pass that ran to its end and raised nothing
Completed == pc = "done" /\ raised = None

\* every completion the provider returned was a request for a registered tool
AlwaysRequestsRegisteredTool ==
    /\ provider_log # <<>>
    /\ \A i \in DOMAIN provider_log :
           /\ provider_log[i].kind = "FunctionCall"
           /\ provider_log[i].name \in RegisteredNames

\* the arguments lack a parameter the tool declares without a default
MissingRequired(tool, kwargs) ==
    {Parameters(tool)[i].name : i \in
        {j \in DOMAIN Parameters(tool) :
            /\ Parameters(tool)[j].required
            /\ Parameters(tool)[j].name \notin Keys(kwargs)}}

(***************************************************************************)
(* Properties.                                                             *)
(***************************************************************************)

\* C1: in every pass, buffered or streaming, whatever the provider and the
\* tools do, at most 5 completion requests are made and at most 5 tool
\* executions are dispatched.
C1_IterationCap ==
    /\ completion_requests <= 5
    /\ execute_tool_calls <= 5
    /\ execute_body_calls <= 5
    /\ Len(provider_log) <= completion_requests

C1_Witness ==
    /\ pc = "done"
    /\ mode = "stream"
    /\ completion_requests = 5
    /\ execute_tool_calls = 5
    /\ execute_body_calls = 5

\* C2: a buffered pass that runs to its end without an exception and in
\* which every completion was a request for a registered tool has made
\* exactly 5 completion requests and 5 tool executions, returns the apology
\* message, and has persisted one turn carrying that message and
\* iterations = 5.
C2_BufferedExhaustion ==
    (mode = "sync" /\ Completed /\ AlwaysRequestsRegisteredTool) =>
        /\ completion_requests = 5
        /\ execute_tool_calls = 5
        /\ returned = Some(<<"I apologize, but I reached the maximum number of tool calls. Please try rephrasing your request.">>)
        /\ Len(TurnsOfPass) = 1
        /\ TurnsOfPass[1].assistant_message = returned[1]
        /\ TurnsOfPass[1].metadata = JsonDumps({<<"iterations", 5>>})
        /\ outcome = "EXHAUSTED"

C2_Witness ==
    /\ mode = "sync"
    /\ Completed
    /\ AlwaysRequestsRegisteredTool
    /\ execute_body_calls = 5
    /\ Len(TurnsOfPass) = 1

\* C3 as stated: every pass that ends, also one in which the provider, the
\* memory read or the tool dispatch raised, ends with an answer and with
\* exactly one turn persisted.
C3_TurnPersistedEvenUnderFailure ==
    pc = "done" =>
        /\ (mode = "sync" => returned # None)
        /\ Len(TurnsOfPass) = 1

\* C3 amended: every pass that ends has delivered its answer to the caller;
\* it has persisted exactly one turn when nothing was raised (the loop ended
\* ANSWERED or EXHAUSTED), and no turn when the provider, the memory or the
\* tool dispatch raised, the answer then being the error text.
C3_TurnPersistedUnlessRaised ==
    pc = "done" =>
        /\ raised = None =>
              /\ outcome \in {"ANSWERED", "EXHAUSTED"}
              /\ Len(TurnsOfPass) = 1
              /\ TurnsOfPass[1].session_id = session_id
              /\ mode = "sync" =>
                    returned = Some(TurnsOfPass[1].assistant_message)
        /\ raised # None =>
              /\ outcome = "ERROR"
              /\ TurnsOfPass = <<>>
              /\ mode = "sync" => returned # None
              /\ mode = "stream" => yielded # <<>>

C3_Witness ==
    /\ pc = "done"
    /\ raised # None
    /\ provider_log # <<>>
    /\ Last(provider_log).kind = "raise"
    /\ tools_used # <<>>
    /\ TurnsOfPass = <<>>

\* C4: an exception raised by the provider, the registry or the memory
\* ends the pass with the text "I encountered an error: <message>": the
\* buffered pass returns it, the streaming pass yields it as its last
\* fragment.
C4_ErrorsBecomeAnswers ==
    raised # None =>
        /\ pc = "done"
        /\ mode = "sync" =>
              returned = Some(<<"I encountered an error: ">> \o raised[1])
        /\ mode = "stream" =>
              /\ yielded # <<>>
              /\ Last(yielded) = <<"I encountered an error: ">> \o raised[1]

C4_Witness ==
    /\ raised = Some(MultipleValuesError)
    /\ mode = "stream"
    /\ Len(yielded) > 2

\* C5: the pass has written no turn until its loop has ended ANSWERED or
\* EXHAUSTED, never writes more than one, and a pass cancelled or abandoned
\* at a suspension point has written none.
C5_TurnWrittenOnceAtEnd ==
    /\ Len(TurnsOfPass) <= 1
    /\ outcome \notin {"ANSWERED", "EXHAUSTED"} => TurnsOfPass = <<>>
    /\ pc # "done" => TurnsOfPass = <<>>
    /\ pc = "cancelled" => TurnsOfPass = <<>>

C5_Witness ==
    /\ pc = "cancelled"
    /\ mode = "stream"
    /\ final_response_parts # <<>>
    /\ tools_used # <<>>
    /\ TurnsOfPass = <<>>

\* C6: a streaming pass whose loop ends EXHAUSTED (a tool was requested in
\* all 5 iterations) ends as the buffered pass does: the apology message is
\* the last thing the caller receives and is the assistant_message of the
\* persisted turn, with iterations = 5.
C6_StreamingApology ==
    (mode = "stream" /\ Completed /\ outcome = "EXHAUSTED") =>
        /\ yielded # <<>>
        /\ Last(yielded) = ApologyMessage
        /\ Len(TurnsOfPass) = 1
        /\ TurnsOfPass[1].assistant_message = ApologyMessage
        /\ <<"iterations", 5>> \in TurnsOfPass[1].metadata[2]

\* C7: in a streaming pass that requests no tool, the caller receives
\* exactly the fragments of the provider stream, in the order produced, and
\* the persisted assistant_message is their concatenation.
C7_StreamedFragments ==
    (mode = "stream" /\ tools_used = <<>> /\ raised = None
        /\ pc \in {"streaming", "save_turn", "done"}) =>
        /\ yielded = provider_fragments
        /\ pc = "done" =>
              /\ Len(TurnsOfPass) = 1
              /\ TurnsOfPass[1].assistant_message = Join(provider_fragments)
              /\ provider_fragments = <<<<"Hel">>, <<"lo">>>> =>
                    TurnsOfPass[1].assistant_message = <<"Hel", "lo">>

C7_Witness ==
    /\ mode = "stream"
    /\ Completed
    /\ tools_used = <<>>
    /\ provider_fragments = <<<<"Hel">>, <<"lo">>>>
    /\ yielded = <<<<"Hel">>, <<"lo">>>>
    /\ TurnsOfPass[1].assistant_message = <<"Hel", "lo">>

\* the result execute_tool gives for a name that is not registered
NotFoundLiteral(name) ==
    [success |-> FALSE, data |-> <<>>,
     error |-> <<<<"Tool '", name, "' not found">>>>, metadata |-> {}]

\* C8: when the requested tool is not registered, execute_tool returns the
\* failure result "Tool '<name>' not found" and raises nothing, and the
\* loop goes on as for any result: the call and the result are appended to
\* the working history and control returns to the loop test.
C8_UnregisteredToolContinues ==
    /\ [](pc = "TOOL_EXECUTED" /\ response.name \notin RegisteredNames =>
             /\ tool_result = NotFoundLiteral(response.name)
             /\ raised = None
             /\ outcome = "none")
    /\ [][pc = "TOOL_EXECUTED" /\ response.name \notin RegisteredNames =>
             /\ pc' = "loop"
             /\ raised' = None
             /\ outcome' = "none"
             /\ Len(current_messages') = Len(current_messages) + 2
             /\ SubSeq(current_messages', 1, Len(current_messages))
                    = current_messages
             /\ Last(current_messages').role = "function"
             /\ Last(current_messages').content
                    = JsonDumps(NotFoundLiteral(response.name))
             /\ tools_used' = Append(tools_used, response.name)]_vars

C8_Witness ==
    /\ pc = "AWAITING_MODEL"
    /\ iteration = 2
    /\ tools_used = <<"ghost">>
    /\ Last(current_messages).content = JsonDumps(NotFoundLiteral("ghost"))

\* C9: when the body of a registered tool raises, execute_tool returns a
\* result with success = false, no data and a non-empty error text, and
\* nothing is raised into the loop.
C9_ToolFaultBecomesResult ==
    (pc = "TOOL_EXECUTED" /\ tool_exception # None) =>
        /\ response.name \in RegisteredNames
        /\ tool_result.success = FALSE
        /\ tool_result.data = None
        /\ tool_result.error # None
        /\ tool_result.error[1] # <<>>
        /\ raised = None
        /\ outcome = "none"

C9_Witness ==
    /\ pc = "TOOL_EXECUTED"
    /\ tool_exception = Some(<<>>)
    /\ tool_result.success = FALSE

\* C10: when the arguments lack a required parameter of the resolved tool,
\* the tool body is never invoked, and execute_tool returns a failure
\* result whose error names the missing parameter; nothing is raised.
C10_MissingRequiredParameter ==
    /\ pc = "executing" =>
          MissingRequired(response.name, response.arguments) = {}
    /\ (/\ pc = "TOOL_EXECUTED"
        /\ response.name \in RegisteredNames
        /\ MissingRequired(response.name, response.arguments) # {}) =>
          /\ tool_result.success = FALSE
          /\ tool_result.data = None
          /\ \E p \in MissingRequired(response.name, response.arguments) :
                 tool_result.error =
                     <<<<"Tool execution failed: ", "Required parameter '",
                         p, "' is missing">>>>
          /\ raised = None
          /\ outcome = "none"

C10_Witness ==
    /\ pc = "TOOL_EXECUTED"
    /\ response.name = "websearch"
    /\ response.arguments = {}
    /\ execute_tool_calls = 1
    /\ execute_body_calls = 0
    /\ tool_result.success = FALSE

\* the tool requests the provider has made so far
ToolCallRequests ==
    {i \in DOMAIN provider_log : provider_log[i].kind = "FunctionCall"}

\* C11: whatever keys the arguments of a tool request carry (a required key
\* missing, or a key equal to the registry's own 'name' parameter), the
\* dispatch enters execute_tool and gets a result back: once the pass has
\* left the dispatch every request has been an execute_tool call, and the
\* dispatch has raised nothing into the pass.
C11_MalformedArgumentsNeverAbort ==
    pc \notin {"TOOL_REQUESTED", "cancelled"} =>
        /\ execute_tool_calls = Cardinality(ToolCallRequests)
        /\ raised # Some(MultipleValuesError)

\* the state that refutes C11: the request carried the key 'name', the
\* dispatch raised TypeError and the pass ended with the error text
C11_DispatchRaised ==
    /\ pc = "done"
    /\ outcome = "ERROR"
    /\ provider_log # <<>>
    /\ Last(provider_log).kind = "FunctionCall"
    /\ "name" \in Keys(Last(provider_log).arguments)
    /\ raised = Some(MultipleValuesError)
    /\ execute_tool_calls < Cardinality(ToolCallRequests)

\* C12: a register call whose tool's name is already registered fails
\* visibly to the caller and leaves the tools map and the category index
\* as they were; the tool held under the name is never silently replaced.
C12_DuplicateRegisterFails ==
    [][(last_call'.op = "register"
          /\ last_call'.tool.name \in RegisteredNames) =>
         /\ last_call'.raised # None
         /\ UNCHANGED <<tools, tool_objects, categories>>]_vars

\* the state that refutes C12: the second tool named calculator has taken
\* the place of the first, nothing was raised, and the first one's category
\* still lists the name
C12_SilentlyReplaced ==
    /\ last_call.op = "register"
    /\ last_call.raised = None
    /\ tools = <<"calculator">>
    /\ tool_objects["calculator"].object = "other.CalculatorTool"
    /\ categories["computation"] = <<"calculator">>
    /\ categories["custom"] = <<"calculator">>

\* C13: with the mock provider and the calculator registered, a buffered
\* pass for "What is 2+2?" that runs to its end has had exactly one tool
\* request, calculator with {expression: "2+2"}, the completion after the
\* tool result was text, the pass ended ANSWERED with a non-empty answer,
\* and the persisted turn has tools_used = ["calculator"].
C13_ScenarioA ==
    (/\ Completed
     /\ mode = "sync"
     /\ tools = <<"calculator">>
     /\ original_message = <<"What is 2+2?">>) =>
        /\ Cardinality(ToolCallRequests) = 1
        /\ provider_log[1] = FunctionCall("calculator",
                                          {<<"expression", "2+2">>})
        /\ Len(provider_log) = 2
        /\ provider_log[2].kind = "text"
        /\ outcome = "ANSWERED"
        /\ returned # None
        /\ returned[1] # <<>>
        /\ Len(TurnsOfPass) = 1
        /\ TurnsOfPass[1].tools_used = JsonDumps(<<"calculator">>)

\* the state that refutes C13: the mock asked for the calculator in all 5
\* iterations and the pass ended EXHAUSTED with the apology
C13_MockNeverAnswers ==
    /\ Completed
    /\ mode = "sync"
    /\ tools = <<"calculator">>
    /\ Cardinality(ToolCallRequests) = 5
    /\ execute_body_calls = 5
    /\ outcome = "EXHAUSTED"
    /\ returned = Some(ApologyMessage)
    /\ TurnsOfPass[1].tools_used =
          JsonDumps(<<"calculator", "calculator", "calculator",
                      "calculator", "calculator">>)

Min(a, b) == IF a < b THEN a ELSE b

\* the rows a history was built from: as many rows of the session as the
\* limit allows, each once, which give the user/assistant pairs in order,
\* have non-decreasing timestamps, and are not older than any row left out
HistoryRows(history, session, limit) ==
    {chosen \in [1..Min(limit, Cardinality(RowsOf(session))) -> RowsOf(session)] :
        /\ \A i, j \in DOMAIN chosen : i # j => chosen[i] # chosen[j]
        /\ \A i, j \in DOMAIN chosen :
               i < j => chosen[i].timestamp <= chosen[j].timestamp
        /\ \A i \in DOMAIN chosen :
               \A r \in RowsOf(session) \ {chosen[j] : j \in DOMAIN chosen} :
                   r.timestamp <= chosen[i].timestamp
        /\ Len(history) = 1 + 2 * Len(chosen)
        /\ \A i \in DOMAIN chosen :
               /\ history[2 * i] =
                     Message("user", chosen[i].user_message, None, None)
               /\ history[2 * i + 1] =
                     Message("assistant", chosen[i].assistant_message,
                             None, None)}

\* C14: what get_conversation_history(session_id, limit) returns is one
\* system message at index 0 followed by the user/assistant pairs of the
\* most recent `limit` turns of that session only, oldest first by
\* timestamp; it has at most 2*limit+1 messages.
C14_HistoryOldestFirst ==
    last_call.op = "get_conversation_history" =>
        LET history == last_call.result IN
        /\ history # <<>>
        /\ history[1] = Message("system", SystemPrompt, None, None)
        /\ \A i \in 2..Len(history) : history[i].role # "system"
        /\ Len(history) <= 2 * last_call.limit + 1
        /\ HistoryRows(history, last_call.session_id, last_call.limit) # {}

C14_Witness ==
    /\ last_call.op = "get_conversation_history"
    /\ last_call.session_id = "s1"
    /\ last_call.limit = 1
    /\ Len(conversations) = 2
    /\ conversations[1].session_id = "s1" /\ conversations[1].timestamp = 2
    /\ conversations[2].session_id = "s1" /\ conversations[2].timestamp = 1
    /\ conversations[1].user_message # conversations[2].user_message
    /\ last_call.result[2].content = conversations[1].user_message
    /\ Len(last_call.result) = 3

\* the messages in flight: what the pass has handed to the provider with
\* the completion request or the stream request it is waiting on
RequestInFlight == pc \in {"AWAITING_MODEL", "streaming"}

\* C15: the message sequence handed to the provider with every completion
\* request and with the stream request is the seeded history (one system
\* message at index 0, then the persisted turns of the session oldest
\* first), then the new user message, then for each tool request so far,
\* in order, the assistant message carrying the call followed by the
\* function message carrying the result; no other system message occurs.
C15_ProviderMessages ==
    RequestInFlight =>
        /\ current_messages[1].role = "system"
        /\ \A i \in 2..Len(current_messages) :
               current_messages[i].role # "system"
        /\ \E history \in get_conversation_history(session_id, 10) :
               LET seed == Len(history) + 1 IN
               /\ Len(current_messages) = seed + 2 * Len(tools_used)
               /\ SubSeq(current_messages, 1, Len(history)) = history
               /\ current_messages[seed] =
                     Message("user", original_message, None, None)
               /\ \A k \in DOMAIN tools_used :
                     /\ current_messages[seed + 2 * k - 1] =
                           Message("assistant", <<>>, None,
                               Some([name |-> provider_log[k].name,
                                     arguments |->
                                        JsonDumps(provider_log[k].arguments)]))
                     /\ current_messages[seed + 2 * k].role = "function"
                     /\ current_messages[seed + 2 * k].name =
                           Some(provider_log[k].name)
                     /\ tools_used[k] = provider_log[k].name
               /\ tools_used # <<>> =>
                     Last(current_messages).content =
                         JsonDumps(to_dict(tool_result))

C15_Witness ==
    /\ pc = "streaming"
    /\ session_id = "s1"
    /\ tools_used = <<"ghost", "websearch">>
    /\ Len(current_messages) = 8
    /\ current_messages[2].content = <<"Hi">>
    /\ current_messages[4].content = <<"What is 2+2?">>
    /\ current_messages[8].content =
          JsonDumps(to_dict(ToolResult(TRUE, Some("4"), None)))

\* query occurs in text as a contiguous piece
Substring(text, query) ==
    \E start \in 1..(Len(text) + 1) :
        /\ start + Len(query) <= Len(text) + 1
        /\ \A k \in 1..Len(query) : text[start + k - 1] = query[k]

Occurrences(seq, x) == Cardinality({i \in DOMAIN seq : seq[i] = x})

\* the row of the store is among the turns, with the texts and the tool
\* list it was saved with
ReadBack(row, turns) ==
    \E i \in DOMAIN turns :
        /\ turns[i].id = row.id
        /\ turns[i].session_id = row.session_id
        /\ turns[i].user_message = row.user_message
        /\ turns[i].assistant_message = row.assistant_message
        /\ JsonDumps(turns[i].tools_used) = row.tools_used

C17_AppendOnly ==
    [][/\ Len(conversations') >= Len(conversations)
       /\ SubSeq(conversations', 1, Len(conversations)) = conversations
       /\ conversations' # conversations =>
             /\ Len(conversations') = Len(conversations) + 1
             /\ last_call'.op = "save_turn"
             /\ last_call'.result = Last(conversations').id
             /\ \A i \in DOMAIN conversations :
                    conversations[i].id < last_call'.result]_vars

C17_Witness ==
    /\ last_call.op = "save_turn"
    /\ last_call.result = 2
    /\ Len(conversations) = 2
    /\ conversations[1].id = 1
    /\ conversations[2].id = 2
    /\ conversations[1].session_id = conversations[2].session_id
    /\ conversations[1].user_message = conversations[2].user_message

\* the passes that have been called
Called == {p \in Passes : passes[p].pc # "idle"}

\* the rows written since the passes began
RowsWritten == SelectSeq(conversations, LAMBDA r : r.id > Len(InitialTurns))

\* the rows written under the session of a pass
WrittenUnder(p) ==
    SelectSeq(RowsWritten, LAMBDA r : r.session_id = passes[p].session_id)

\* the working history a pass running alone on the initial store starts with
SeededAlone(p) ==
    <<Message("system", SystemPrompt, None, None)>>
    \o TurnMessages(SelectSeq(InitialTurns,
            LAMBDA r : r.session_id = passes[p].session_id))
    \o <<Message("user", MessageOf(p), None, None)>>

\* the pass has saved its turn
Persisting(p) == passes[p].outcome \in {"ANSWERED", "EXHAUSTED"}

\* C18: when the passes run on different sessions, however their steps
\* interleave, each pass starts from the history of its own session alone,
\* every turn written is the turn of one pass, stored under that pass's
\* session with that pass's message, answer and tools, and each session
\* holds exactly the turn its pass would have written running alone.
C18_SessionsIsolated ==
    (\A p, q \in Called : p # q => passes[p].session_id # passes[q].session_id)
    =>
        /\ SubSeq(conversations, 1, Len(InitialTurns)) = InitialTurns
        /\ \A p \in Called :
               passes[p].history # <<>> => passes[p].history = SeededAlone(p)
        /\ \A i \in DOMAIN RowsWritten :
               \E p \in Called :
                   /\ Persisting(p)
                   /\ RowsWritten[i].session_id = passes[p].session_id
                   /\ RowsWritten[i].user_message = MessageOf(p)
                   /\ RowsWritten[i].assistant_message = passes[p].returned[1]
                   /\ RowsWritten[i].tools_used =
                         JsonDumps(passes[p].tools_used)
        /\ \A p \in Called :
               Len(WrittenUnder(p)) = IF Persisting(p) THEN 1 ELSE 0

C18_Witness ==
    /\ passes["p1"].session_id = "s1"
    /\ passes["p2"].session_id = "s2"
    /\ passes["p1"].rows_seen = 2
    /\ passes["p2"].rows_seen = 2
    /\ passes["p1"].outcome = "ANSWERED"
    /\ passes["p2"].outcome = "EXHAUSTED"
    /\ passes["p1"].tools_used = <<"calculator">>
    /\ Len(conversations) = 4
    /\ conversations[3].session_id = "s2"
    /\ conversations[4].session_id = "s1"

\* C19: in every session the timestamps of the persisted turns, read in
\* insertion (id) order, never decrease, however the passes that write to
\* the session interleave.
C19_TimestampsNonDecreasing ==
    \A i, j \in DOMAIN conversations :
        (/\ conversations[i].id < conversations[j].id
         /\ conversations[i].session_id = conversations[j].session_id) =>
            conversations[i].timestamp <= conversations[j].timestamp

\* the state that refutes C19: two passes of session s1 have saved their
\* turns, the second after the wall clock was set back
C19_ClockSetBack ==
    /\ passes["p1"].session_id = "s1"
    /\ passes["p2"].session_id = "s1"
    /\ passes["p1"].outcome = "ANSWERED"
    /\ passes["p2"].outcome = "ANSWERED"
    /\ Len(conversations) = 4
    /\ conversations[3].session_id = "s1"
    /\ conversations[4].session_id = "s1"
    /\ conversations[3].timestamp = 2
    /\ conversations[4].timestamp = 1

\* C20: every pass that has been called, whether it created its session or
\* was given one (also one supplied from outside), has updated that
\* session: get_session of its session_id returns a record whose
\* last_activity is not older than the start of the pass; and no session
\* is ever removed.
C20_SessionTouched ==
    /\ \A p \in Called :
           /\ get_session(passes[p].session_id) # None
           /\ get_session(passes[p].session_id)[1].last_activity
                 >= passes[p].started_at
    /\ {"s1", "s2"} \subseteq DOMAIN active_sessions

\* the state that refutes C20: a pass has run to its end under a session id
\* supplied from outside, its turn is stored, and the ConversationManager
\* knows no such session
C20_ExternalSessionUnknown ==
    /\ passes["p1"].session_id = "ext"
    /\ passes["p1"].outcome = "ANSWERED"
    /\ Last(conversations).session_id = "ext"
    /\ get_session("ext") = None

(***************************************************************************)
(* Observations of the schema derivation.                                  *)
(***************************************************************************)
\* the parameters a signature declares, the one named kwargs aside
Listed(tool) == SelectSeq(tool.execute, LAMBDA param : param.name # "kwargs")

\* those of them declared without a default
LackDefault(tool) == SelectSeq(Listed(tool), LAMBDA param : param.default = None)

Names(params) == [i \in DOMAIN params |-> params[i].name]

\* Optional[T], or a Union with None among its members
OptionalTyped(annotation) ==
    /\ annotation.form = "alias"
    /\ annotation.origin = "Union"
    /\ \E i \in DOMAIN annotation.args : annotation.args[i] = NoneType

SchemaReturned == last_call.op = "to_function_schema"

\* C21: a call of to_function_schema leaves the tool (its parameter list
\* included) and the execution counts as they were, and returns the schema
\* that a second call on the tool as it then is returns as well; the
\* schema's parameters have the key 'required' if and only if the signature
\* declares a parameter without a default, and the key then holds exactly
\* the names of those parameters in the order of their declaration.
C21_SchemaDerivation ==
    /\ [](SchemaReturned =>
            LET tool == tool_objects[last_call.tool_name]
                parameters == last_call.result.parameters
            IN /\ ("required" \in DOMAIN parameters) <=>
                      (LackDefault(tool) # <<>>)
               /\ "required" \in DOMAIN parameters =>
                      parameters.required = Names(LackDefault(tool)))
    /\ [][(last_call' # last_call /\ last_call'.op = "to_function_schema") =>
            /\ tool_objects' = tool_objects
            /\ execute_tool_calls' = execute_tool_calls
            /\ execute_body_calls' = execute_body_calls
            /\ last_call'.result =
                   to_function_schema(tool_objects'[last_call'.tool_name])]_vars

\* a tool that has been executed once is asked for its schema: of its two
\* parameters only the first lacks a default, and **kwargs follows them
C21_Witness ==
    /\ SchemaReturned
    /\ execute_body_calls = 1
    /\ Len(tool_objects["demo"].execute) = 3
    /\ Len(tool_objects["demo"].parameters) = 2
    /\ tool_objects["demo"].execute[2].default = Some("None")
    /\ last_call.result.parameters.required = <<"x1">>

\* C22: the required list of every derived schema holds exactly the
\* parameters declared without a default whose type is not Optional; an
\* Optional[T] parameter without a default is not in it.
C22_RequiredExcludesOptional ==
    SchemaReturned =>
        LET tool == tool_objects[last_call.tool_name]
            parameters == last_call.result.parameters
            required == IF "required" \in DOMAIN parameters
                        THEN parameters.required ELSE <<>>
        IN required =
               Names(SelectSeq(LackDefault(tool),
                     LAMBDA param : ~OptionalTyped(param.annotation)))

\* the one parameter is Optional[float] without a default and the schema
\* lists it as required
C22_OptionalListedRequired ==
    /\ SchemaReturned
    /\ Len(tool_objects["demo"].execute) = 1
    /\ tool_objects["demo"].execute[1] =
           Declared("x1", Optional(Class("float")), None)
    /\ "required" \in DOMAIN last_call.result.parameters
    /\ last_call.result.parameters.required = <<"x1">>

SemanticTypes ==
    {"string", "integer", "number", "boolean", "array", "object"}

\* the annotation is a plain class the type mapping does not list
Unclassified(annotation) ==
    annotation.form = "class" /\ annotation.name \notin DOMAIN type_mapping

\* C23: the type derived for every parameter of every constructed tool is
\* one of string, integer, number, boolean, array, object, and it is
\* 'string' when the declared type cannot be classified.
C23_SemanticTypes ==
    \A name \in RegisteredNames :
        LET tool == tool_objects[name] IN
        \A i \in DOMAIN tool.parameters :
            /\ tool.parameters[i].type \in SemanticTypes
            /\ Unclassified(Listed(tool)[i].annotation) =>
                   tool.parameters[i].type = "string"

\* a parameter annotated with a class of the repository gets the name of
\* the class as its type
C23_ClassNameAsType ==
    /\ SchemaReturned
    /\ Len(tool_objects["demo"].parameters) = 1
    /\ tool_objects["demo"].execute[1].annotation = Class("ToolCategory")
    /\ tool_objects["demo"].parameters[1].type = "ToolCategory"
    /\ last_call.result.parameters.properties[1][2].type = "ToolCategory"

\* a key is configured when the settings hold a non-empty string for it
Configured(key) == key # None /\ key # Some("")

ManagerCalled ==
    last_call.op \in {"get_provider", "chat_completion", "stream_completion"}

\* C24: under every combination of keys the manager has a default provider
\* and it is registered: 'openai' with an OpenAI key configured, else
\* 'anthropic' with an Anthropic key configured, else 'mock'; a lookup
\* without a name (None or the empty string) raises nothing and gives the
\* default provider, a lookup of a name that is not registered raises the
\* ValueError, and a lookup of a registered name gives that provider.
C24_DefaultProvider ==
    /\ default_provider # None
    /\ Contains(providers, default_provider[1])
    /\ default_provider =
           IF Configured(settings.openai_api_key) THEN Some("openai")
           ELSE IF Configured(settings.anthropic_api_key)
           THEN Some("anthropic")
           ELSE Some("mock")
    /\ ManagerCalled =>
           LET name == last_call.provider_name IN
           IF name \in {None, Some("")}
           THEN last_call.raised = None /\ last_call.provider = default_provider
           ELSE IF Contains(providers, name[1])
           THEN last_call.raised = None /\ last_call.provider = name
           ELSE /\ last_call.provider = None
                /\ last_call.raised = Some(NotAvailable(name))

\* only the Anthropic key is configured (the OpenAI key is the empty
\* string): 'anthropic' is the default and a lookup of 'openai' has raised
C24_Witness ==
    /\ settings = Settings(Some(""), Some("sk-1"))
    /\ default_provider = Some("anthropic")
    /\ last_call.op = "get_provider"
    /\ last_call.provider_name = Some("openai")
    /\ last_call.raised # None

\* C25: the id create_session returns is the key of a session from then on,
\* get_session of the key of a session returns that session's record, a
\* session keeps its record and leaves the manager only in a call of
\* cleanup_inactive_sessions, and get_session_stats of a session without
\* turns in the store returns a mapping with total_turns equal to 0.
C25_SessionLookup ==
    /\ [](last_call.op = "get_session" =>
            IF last_call.session_id \in DOMAIN active_sessions
            THEN /\ last_call.result # None
                 /\ last_call.result[1] =
                        active_sessions[last_call.session_id]
            ELSE last_call.result = None)
    /\ [](last_call.op = "get_session_stats" =>
            ((\A i \in DOMAIN conversations :
                 conversations[i].session_id # last_call.session_id) =>
             /\ "total_turns" \in DOMAIN last_call.result
             /\ last_call.result.total_turns = 0))
    /\ [][/\ (active_sessions' # active_sessions
                /\ last_call'.op = "create_session") =>
                /\ last_call'.result \in DOMAIN active_sessions'
                /\ last_call'.result \notin DOMAIN active_sessions
          /\ \A id \in DOMAIN active_sessions :
                IF id \in DOMAIN active_sessions'
                THEN active_sessions'[id].created_at =
                         active_sessions[id].created_at
                ELSE last_call'.op = "cleanup_inactive_sessions"]_vars

\* the statistics of a session that was created and has no turn are asked
\* for while the store holds a turn of another session, which is no
\* longer active
C25_Witness ==
    /\ last_call.op = "get_session_stats"
    /\ last_call.session_id = "uuid-2"
    /\ "uuid-2" \in DOMAIN active_sessions
    /\ "uuid-1" \notin DOMAIN active_sessions
    /\ \E i \in DOMAIN conversations : conversations[i].session_id = "uuid-1"
    /\ last_call.result.total_turns = 0

\* the state of the pass in the terms of the state machine: the pass awaits
\* the model while a completion or the stream is outstanding, a tool is
\* requested until execute_tool has returned, and executed until the next
\* request is issued or the loop gives up
PassState ==
    CASE outcome # "none" -> outcome
      [] pc = "idle" -> "IDLE"
      [] pc = "loop" /\ iteration = 0 -> "STARTED"
      [] pc \in {"AWAITING_MODEL", "streaming"} -> "AWAITING_MODEL"
      [] pc \in {"TOOL_REQUESTED", "executing"} -> "TOOL_REQUESTED"
      [] OTHER -> "TOOL_EXECUTED"

\* C26: a pass moves only from AWAITING_MODEL to TOOL_REQUESTED, from there
\* to TOOL_EXECUTED, from there back to AWAITING_MODEL or, with 5 tools
\* executed, to EXHAUSTED, and from AWAITING_MODEL to ANSWERED; an
\* exception before the pass has returned takes it to the error answer and
\* a cancellation ends it. A pass whose awaits return ends, its outcome is
\* ANSWERED, EXHAUSTED or the error answer, and nothing changes once it has
\* ended.
C26_StateMachine ==
    /\ [][PassState' # PassState =>
            \/ PassState = "IDLE" /\ PassState' \in {"STARTED", "ERROR"}
            \/ PassState = "STARTED" /\ PassState' = "AWAITING_MODEL"
            \/ PassState = "AWAITING_MODEL" /\ PassState' = "TOOL_REQUESTED"
            \/ PassState = "TOOL_REQUESTED" /\ PassState' = "TOOL_EXECUTED"
            \/ PassState = "TOOL_EXECUTED" /\ PassState' = "AWAITING_MODEL"
            \/ PassState = "AWAITING_MODEL" /\ PassState' = "ANSWERED"
            \/ /\ PassState = "TOOL_EXECUTED" /\ PassState' = "EXHAUSTED"
               /\ Len(tools_used) = 5
               /\ execute_tool_calls = 5
            \/ /\ pc \notin {"done", "cancelled"}
               /\ PassState' = "ERROR"
            \/ /\ PassState \in {"AWAITING_MODEL", "TOOL_REQUESTED",
                                 "TOOL_EXECUTED"}
               /\ PassState' = "CANCELLED"]_vars
    /\ [](pc = "done" => outcome \in {"ANSWERED", "EXHAUSTED", "ERROR"})
    /\ [][(pc \in {"done", "cancelled"}) => (vars' = vars)]_vars
    /\ (pc # "idle") ~> (pc \in {"done", "cancelled"})

\* a pass has gone round the cycle five times and ended EXHAUSTED
C26_Witness ==
    /\ pc = "done"
    /\ outcome = "EXHAUSTED"
    /\ iteration = 5
    /\ Len(tools_used) = 5

C28_StrictlySequential ==
    /\ execute_tool_calls <= Len(provider_log)
    /\ \A k \in 1..execute_tool_calls : provider_log[k].kind = "FunctionCall"
    /\ completion_requests - Len(provider_log) \in {0, 1}
    /\ execute_tool_calls - Len(tools_used) \in {0, 1}
    /\ pc = "AWAITING_MODEL" =>
          /\ completion_requests = Len(provider_log) + 1
          /\ execute_tool_calls = Len(tools_used)
          /\ Len(tools_used) = completion_requests - 1
          /\ stream_requests = 0
    /\ pc = "streaming" =>
          /\ completion_requests = Len(provider_log)
          /\ execute_tool_calls = Len(tools_used)
          /\ stream_requests = 1
    /\ pc = "executing" =>
          /\ completion_requests = Len(provider_log)
          /\ execute_tool_calls = Len(tools_used) + 1
          /\ execute_tool_calls = completion_requests
          /\ stream_requests = 0
    /\ RequestInFlight =>
          LET seed == Len(current_messages) - 2 * Len(tools_used) IN
          /\ seed >= 2
          /\ current_messages[seed].role = "user"
          /\ \A k \in DOMAIN tools_used :
                /\ current_messages[seed + 2 * k].role = "function"
                /\ current_messages[seed + 2 * k].name =
                       Some(provider_log[k].name)
          /\ tools_used # <<>> =>
                current_messages[Len(current_messages)].content =
                    JsonDumps(to_dict(tool_result))

\* the third completion request is outstanding after two executions whose
\* bodies ran
C28_Witness ==
    /\ pc = "AWAITING_MODEL"
    /\ completion_requests = 3
    /\ execute_body_calls = 2
    /\ Len(tools_used) = 2
    /\ Len(provider_log) = 2

\* C29: a pass asks the provider for a stream at most once, a buffered pass
\* never, and a streaming pass only when its last unary completion returned
\* text; once the stream has been asked for, no completion is requested and
\* no tool is dispatched or recorded; the call a pass dispatches is the one
\* its last unary completion returned.
C29_ToolDecisionsUnary ==
    /\ [](/\ stream_requests <= 1
          /\ mode = "sync" => stream_requests = 0
          /\ stream_requests = 1 =>
                /\ mode = "stream"
                /\ provider_log # <<>>
                /\ provider_log[Len(provider_log)].kind = "text"
          /\ pc \in {"TOOL_REQUESTED", "executing", "TOOL_EXECUTED"} =>
                /\ provider_log[Len(provider_log)] = response
                /\ response.kind = "FunctionCall"
                /\ stream_requests = 0)
    /\ [][stream_requests >= 1 =>
            /\ completion_requests' = completion_requests
            /\ stream_requests' = stream_requests
            /\ execute_tool_calls' = execute_tool_calls
            /\ execute_body_calls' = execute_body_calls
            /\ tools_used' = tools_used
            /\ provider_log' = provider_log]_vars

\* a streaming pass that used a tool, then got text from its second unary
\* completion, streamed the answer and ended
C29_Witness ==
    /\ pc = "done"
    /\ mode = "stream"
    /\ outcome = "ANSWERED"
    /\ stream_requests = 1
    /\ completion_requests = 2
    /\ tools_used = <<"websearch">>
    /\ Len(provider_fragments) = 2

\* C30: the schemas sent with every completion request are the schemas of
\* the tools the registry holds when the request is issued, also when a
\* tool was registered or unregistered since the pass began.
C30_CurrentSchemasEachRequest ==
    [][(pc # "AWAITING_MODEL" /\ pc' = "AWAITING_MODEL") =>
          function_schemas' = [i \in DOMAIN tools' |-> [name |-> tools'[i]]]]_vars

\* the calculator was unregistered while the pass was suspended, and the
\* second completion request still advertises it
C30_StaleSchemas ==
    /\ pc = "AWAITING_MODEL"
    /\ completion_requests = 2
    /\ tools = <<"websearch">>
    /\ function_schemas = <<[name |-> "websearch"], [name |-> "calculator"]>>

\* C31: with the Anthropic adapter as the active provider, whatever schemas
\* are supplied, no completion is a tool request; no tool is dispatched or
\* executed; the loop makes one iteration and never exhausts the cap; a pass
\* that runs to its end without an exception ended ANSWERED in iteration 1;
\* and every turn a pass persists has tools_used = [] and iterations = 1.
C31_AnthropicNeverRequestsTool ==
    /\ \A i \in DOMAIN provider_log : provider_log[i].kind # "FunctionCall"
    /\ response.kind # "FunctionCall"
    /\ pc \notin {"TOOL_REQUESTED", "executing", "TOOL_EXECUTED"}
    /\ execute_tool_calls = 0
    /\ execute_body_calls = 0
    /\ iteration <= 1
    /\ outcome # "EXHAUSTED"
    /\ Completed => (outcome = "ANSWERED" /\ iteration = 1)
    /\ \A i \in DOMAIN TurnsOfPass :
           /\ TurnsOfPass[i].tools_used = JsonDumps(<<>>)
           /\ <<"iterations", 1>> \in TurnsOfPass[i].metadata[2]

\* a streaming pass under the adapter, with the schemas of two tools
\* supplied, has ended ANSWERED and persisted its turn
C31_Witness ==
    /\ Completed
    /\ get_provider(None).provider = Some("anthropic")
    /\ mode = "stream"
    /\ Len(function_schemas) = 2
    /\ provider_log = <<TextResponse(<<"Hello">>)>>
    /\ outcome = "ANSWERED"
    /\ iteration = 1
    /\ Len(TurnsOfPass) = 1
    /\ TurnsOfPass[1].tools_used = JsonDumps(<<>>)

\* C32: CodeExecutorTool enforces its timeout: whenever the code has been
\* running for longer than `timeout`, execute eventually returns, and what
\* it returns after code that ran for longer than `timeout` is the failure
\* 'Code execution timed out after <timeout> seconds'.
C32_TimeoutEnforced ==
    /\ []((pc = "done" /\ last_call.ran > last_call.timeout) =>
            tool_result = TimedOut(last_call.timeout))
    /\ ((pc = "exec" /\ last_call.ran > last_call.timeout) ~> (pc = "done"))

\* the state that refutes C32: code that never returns has run past the
\* timeout inside exec, the timer is still armed, and another pass of the
\* loop waits for an answer that cannot be delivered to it
C32_LoopBlockedPastTimeout ==
    /\ pc = "exec"
    /\ ~last_call.code.finishes
    /\ last_call.ran > last_call.timeout
    /\ last_call.timer = "armed"
    /\ tool_result = NoToolResult
    /\ passes["p2"].pc = "AWAITING_MODEL"
    /\ ~LoopFree

\* the rows search_conversations is specified to choose from: those whose
\* user or assistant text contains the query as a substring, of the given
\* session when one is given and of any session otherwise
ContainingQuery(query, session) ==
    {r \in RowsOfAnySession(session) :
        /\ \/ Substring(r.user_message, query)
           \/ Substring(r.assistant_message, query)
        /\ session # None => r.session_id = session[1]}

\* C33: search_conversations(query, session_id?, limit) returns exactly the
\* newest `limit` persisted turns whose user or assistant text contains the
\* query as a substring, newest first by timestamp, of the given session
\* only when one is given and of all sessions otherwise.
C33_SearchBySubstring ==
    last_call.op = "search_conversations" =>
        LET result == last_call.result
            eligible == ContainingQuery(last_call.query, last_call.session_id)
        IN /\ Len(result) = Min(last_call.limit, Cardinality(eligible))
           /\ \A i \in DOMAIN result :
                  \E r \in eligible : result[i] = ToTurn(r)
           /\ \A i, j \in DOMAIN result :
                  i < j => /\ result[i].id # result[j].id
                           /\ result[i].timestamp >= result[j].timestamp
           /\ \A r \in eligible :
                  (\A i \in DOMAIN result : result[i].id # r.id) =>
                      \A i \in DOMAIN result :
                          r.timestamp <= result[i].timestamp

\* the state that refutes C33: the query "_" was searched for and a turn
\* was returned although neither of its texts contains an underscore
C33_WildcardMatched ==
    /\ last_call.op = "search_conversations"
    /\ last_call.query = <<"_">>
    /\ last_call.result # <<>>
    /\ \A i \in DOMAIN last_call.result :
           /\ ~Substring(last_call.result[i].user_message, <<"_">>)
           /\ ~Substring(last_call.result[i].assistant_message, <<"_">>)

RECURSIVE OccurrencesIn(_, _)
\* how often a tool name occurs in the tools_used lists of a set of rows
OccurrencesIn(rows, tool) ==
    IF rows = {} THEN 0
    ELSE LET r == CHOOSE x \in rows : TRUE
         IN Occurrences(JsonLoads(r.tools_used), tool)
            + OccurrencesIn(rows \ {r}, tool)

\* C34: get_session_stats(session_id) returns total_turns equal to the
\* number of persisted turns of the session, first and last timestamps
\* equal to the least and the greatest timestamp of those turns (none for a
\* session without turns), and a count for exactly the tool names those
\* turns list, each equal to the number of its occurrences in their
\* tools_used lists; the turns of other sessions count nothing.
C34_SessionStats ==
    last_call.op = "get_session_stats" =>
        LET stats == last_call.result
            rows == RowsOf(last_call.session_id)
        IN /\ stats.total_turns = Cardinality(rows)
           /\ rows = {} =>
                  stats.first_message = None /\ stats.last_message = None
           /\ rows # {} =>
                  /\ \E r \in rows : stats.first_message = Some(r.timestamp)
                  /\ \E r \in rows : stats.last_message = Some(r.timestamp)
                  /\ \A r \in rows :
                         /\ stats.first_message[1] <= r.timestamp
                         /\ r.timestamp <= stats.last_message[1]
           /\ DOMAIN stats.tools_used =
                  {tool \in ToolNames \cup RegisteredNames :
                      OccurrencesIn(rows, tool) > 0}
           /\ \A tool \in DOMAIN stats.tools_used :
                  stats.tools_used[tool] = OccurrencesIn(rows, tool)

\* the stats of a session whose one turn lists calculator twice were asked
\* for while another session holds a turn with tools as well
C34_Witness ==
    /\ last_call.op = "get_session_stats"
    /\ Cardinality(RowsOf(last_call.session_id)) = 1
    /\ \E r \in RowsOfAnySession(None) :
           /\ r.session_id # last_call.session_id
           /\ JsonLoads(r.tools_used) # <<>>
    /\ last_call.result.total_turns = 1
    /\ "calculator" \in DOMAIN last_call.result.tools_used
    /\ last_call.result.tools_used["calculator"] = 2

\* the names of the tools the provider has requested, in request order
RequestedNames ==
    LET requests == SelectSeq(provider_log,
                              LAMBDA r : r.kind = "FunctionCall")
    IN [i \in DOMAIN requests |-> requests[i].name]

\* C35: in every turn a pass persists, tools_used lists the names of the
\* requested tools in request order, one for each iteration that requested
\* a tool, and metadata.iterations agrees with the end of the loop: it is
\* len(tools_used) + 1 when the pass ended ANSWERED, and iterations and
\* len(tools_used) are both 5 when it ended EXHAUSTED.
C35_IterationsMatchToolsUsed ==
    \A t \in DOMAIN TurnsOfPass :
        LET used == JsonLoads(TurnsOfPass[t].tools_used)
            metadata == JsonLoads(TurnsOfPass[t].metadata)
        IN /\ used = RequestedNames
           /\ Len(used) = Cardinality(ToolCallRequests)
           /\ outcome \in {"ANSWERED", "EXHAUSTED"}
           /\ outcome = "ANSWERED" =>
                  <<"iterations", Len(used) + 1>> \in metadata
           /\ outcome = "EXHAUSTED" =>
                  /\ Len(used) = 5
                  /\ <<"iterations", 5>> \in metadata
           /\ \A i \in 0..6 :
                  <<"iterations", i>> \in metadata => i = iteration

\* a streaming pass that requested websearch and then a tool that is not
\* registered was ANSWERED in iteration 3 and has persisted its turn
C35_Witness ==
    /\ Completed
    /\ mode = "stream"
    /\ outcome = "ANSWERED"
    /\ Len(TurnsOfPass) = 1
    /\ JsonLoads(TurnsOfPass[1].tools_used) = <<"websearch", "ghost">>
    /\ <<"iterations", 3>> \in JsonLoads(TurnsOfPass[1].metadata)

\* C36: a streaming pass that ends ANSWERED in iteration k has issued k
\* unary completion requests, of which the first k - 1 returned tool
\* requests and the k-th text, and after them exactly one stream request,
\* which carried the working history and no tool schemas; the text of the
\* k-th unary completion is not among the chunks the caller received and is
\* not the persisted answer, which is the concatenation of the streamed
\* fragments; once the stream request is made no further completion
\* request follows.
C36_UnaryTextDiscarded ==
    /\ []((mode = "stream" /\ (pc = "streaming" \/ outcome = "ANSWERED")) =>
            /\ completion_requests = iteration
            /\ stream_requests = 1
            /\ Len(provider_log) = iteration
            /\ \A i \in 1..(iteration - 1) :
                   provider_log[i].kind = "FunctionCall"
            /\ provider_log[iteration] = response
            /\ response.kind = "text"
            /\ last_call.op = "stream_completion"
            /\ last_call.messages = current_messages
            /\ last_call.functions = None
            /\ \A i \in DOMAIN yielded : yielded[i] # response.text
            /\ Completed =>
                   /\ Len(TurnsOfPass) = 1
                   /\ TurnsOfPass[1].assistant_message =
                         Join(provider_fragments)
                   /\ TurnsOfPass[1].assistant_message # response.text)
    /\ [][stream_requests' # stream_requests =>
            /\ stream_requests = 0
            /\ completion_requests' = completion_requests]_vars
    /\ [][stream_requests = 1 =>
            completion_requests' = completion_requests]_vars

\* a streaming pass was ANSWERED in iteration 2: one tool request, the
\* text "Hello" from the second unary completion, then the stream, whose
\* fragments alone reached the caller and the store
C36_Witness ==
    /\ Completed
    /\ mode = "stream"
    /\ outcome = "ANSWERED"
    /\ iteration = 2
    /\ completion_requests = 2
    /\ stream_requests = 1
    /\ function_schemas # <<>>
    /\ response = TextResponse(<<"Hello">>)
    /\ provider_fragments = <<<<"Hel">>, <<"lo">>>>
    /\ TurnsOfPass[1].assistant_message = <<"Hel", "lo">>

\* C37: with the mock provider active and a registry of at least one tool,
\* every unary completion of a buffered pass is a request for the tool that
\* was registered first, whatever the history holds; the pass never ends
\* ANSWERED, and a pass that runs to its end has ended EXHAUSTED after 5
\* dispatches of that tool, returns the apology message and persists it
\* with that tool listed 5 times.
C37_MockExhaustsBufferedPass ==
    (/\ get_provider(None).provider = Some("mock")
     /\ mode = "sync"
     /\ tools # <<>>) =>
        /\ \A i \in DOMAIN provider_log :
               /\ provider_log[i].kind = "FunctionCall"
               /\ provider_log[i].name = tools[1]
        /\ outcome # "ANSWERED"
        /\ \A i \in DOMAIN tools_used : tools_used[i] = tools[1]
        /\ Completed =>
               /\ outcome = "EXHAUSTED"
               /\ iteration = 5
               /\ completion_requests = 5
               /\ execute_tool_calls = 5
               /\ returned = Some(ApologyMessage)
               /\ Len(TurnsOfPass) = 1
               /\ TurnsOfPass[1].assistant_message = ApologyMessage
               /\ JsonLoads(TurnsOfPass[1].tools_used) =
                     [i \in 1..5 |-> tools[1]]

\* websearch was registered before calculator: the buffered pass has
\* dispatched websearch five times, each without its query, and returned
\* the apology
C37_Witness ==
    /\ Completed
    /\ get_provider(None).provider = Some("mock")
    /\ mode = "sync"
    /\ tools = <<"websearch", "calculator">>
    /\ execute_tool_calls = 5
    /\ execute_body_calls = 0
    /\ outcome = "EXHAUSTED"
    /\ returned = Some(ApologyMessage)
    /\ JsonLoads(TurnsOfPass[1].tools_used) = [i \in 1..5 |-> "websearch"]

\* C38: after any sequence of register and unregister calls the category
\* index and the tools map agree: every name listed under a category is a
\* key of the tools map and the tool held under it has that category, and
\* the name of every registered tool is listed exactly once in the whole
\* index.
C38_IndexConsistent ==
    /\ \A c \in ToolCategory :
           \A i \in DOMAIN categories[c] :
               /\ categories[c][i] \in RegisteredNames
               /\ tool_objects[categories[c][i]].category = c
    /\ \A name \in RegisteredNames :
           Cardinality({<<c, i>> \in ToolCategory \X (1..MaxCategoryEntries) :
                          /\ i \in DOMAIN categories[c]
                          /\ categories[c][i] = name}) = 1

\* the state that refutes C38: calculator was registered twice and
\* unregistered once; the tools map is empty and the index still lists the
\* name, so get_tools_by_category of that category raises KeyError
C38_StaleName ==
    /\ last_call.op = "unregister"
    /\ last_call.raised = None
    /\ tools = <<>>
    /\ categories["computation"] = <<"calculator">>
    /\ "calculator" \notin RegisteredNames

\* the session ids a pass may run under
SessionsOfPasses == {passes[p].session_id : p \in Called}

\* the passes of a session that ended ANSWERED or EXHAUSTED
PersistingIn(session) ==
    {p \in Called : passes[p].session_id = session /\ Persisting(p)}

\* C39: however the steps of the passes interleave, on one session or on
\* several, the turns the store held before are kept as they were, every
\* pass that ended ANSWERED or EXHAUSTED finds its own turn in the store,
\* no two rows share an id, and total_turns of every session has grown by
\* exactly the number of its passes that ended so.
C39_NoTurnLost ==
    /\ SubSeq(conversations, 1, Len(InitialTurns)) = InitialTurns
    /\ \A i, j \in DOMAIN conversations :
           i # j => conversations[i].id # conversations[j].id
    /\ \A p \in Called :
           Persisting(p) =>
               \E i \in DOMAIN RowsWritten :
                   /\ RowsWritten[i].session_id = passes[p].session_id
                   /\ RowsWritten[i].user_message = MessageOf(p)
                   /\ RowsWritten[i].assistant_message = passes[p].returned[1]
                   /\ RowsWritten[i].tools_used =
                         JsonDumps(passes[p].tools_used)
    /\ \A session \in SessionsOfPasses :
           get_session_stats(session).total_turns =
               Len(SelectSeq(InitialTurns,
                             LAMBDA r : r.session_id = session))
               + Cardinality(PersistingIn(session))

\* both passes ran on session s1 and each read the history before the
\* other had saved: neither history holds the other's turn, and both turns
\* are in the store, three turns of s1 in all
C39_Witness ==
    /\ passes["p1"].session_id = "s1"
    /\ passes["p2"].session_id = "s1"
    /\ passes["p1"].rows_seen = 2
    /\ passes["p2"].rows_seen = 2
    /\ passes["p1"].outcome = "ANSWERED"
    /\ passes["p2"].outcome = "EXHAUSTED"
    /\ Len(conversations) = 4
    /\ conversations[3].user_message = MessageOf("p2")
    /\ conversations[4].user_message = MessageOf("p1")
    /\ get_session_stats("s1").total_turns = 3

====
